---- MODULE Spec2Model ----
(***************************************************************************)
(* A model of the Personal AI Assistant backend: the idea pipeline         *)
(* (embed, search, generate, store, parse), task extraction, the vector    *)
(* store's admin operations and the HTTP boundary that maps their outcomes *)
(* to responses.                                                           *)
(*                                                                         *)
(* Text produced by the LLM is a sequence of JSON lexemes: the Python      *)
(* string is their concatenation.  Idea texts are atomic strings.  Scores  *)
(* and temperatures are integers in hundredths (0.7 is 70).                *)
(***************************************************************************)
EXTENDS Integers, Sequences, FiniteSets, TLC

(***************************************************************************)
(* Bounds of the model                                                     *)
(***************************************************************************)
\* How many records may ever be added (each add draws a fresh uuid4).
MaxIds == 2

\* How many records the store-then-retrieve runs may add: more than the
\* configured top_k, so that a search has something to cut off.
MaxRecall == 6

\* How many calls each concurrent thread makes for the singletons.
MaxCalls == 2

(***************************************************************************)
(* Program constants                                                       *)
(***************************************************************************)
RetryAttempts == 3
RagTopK == 5
RagScoreThreshold == 70
LlmTemperature == 30
StructuredTemperature == 10
EmbeddingDim == 1024
GetAllLimit == 100

(***************************************************************************)
(* Inputs                                                                  *)
(***************************************************************************)
\* The request bodies' content (1..10000 characters, so never empty).
IdeaTexts == {"ta", "tb"}

\* Identifiers a caller may name: the ones add can have issued, and one more.
DocIds == 1..(MaxIds + 1)

\* JSON string lexemes, with the Python string each one denotes.
StringTokens ==
    {"\"a\"", "\"b\"", "\"tasks\"", "\"clean_note\"", "\"themes\"",
     "\"task\"", "\"priority\"", "\"high\"", "\"suggested_tasks\""}

Unquote(tk) == SubSeq(tk, 2, Len(tk) - 1)

\* What the chat-completion provider may answer.
LlmOutputs ==
    { <<>>,
      <<"oops">>,
      <<"{", "\"clean_note\"">>,
      <<"null">>,
      <<"\"a\"">>,
      <<"[", "]">>,
      <<"{", "}">>,
      <<"{", "\"clean_note\"", ":", "\"a\"", "}">>,
      <<"{", "\"clean_note\"", ":", "\"a\"", ",",
             "\"themes\"", ":", "[", "\"a\"", ",", "\"b\"", "]", ",",
             "\"suggested_tasks\"", ":", "[", "{", "\"task\"", ":", "\"a\"",
             ",", "\"priority\"", ":", "\"high\"", ",", "\"themes\"", ":",
             "\"b\"", "}", "]", "}">>,
      <<"{", "\"tasks\"", ":", "[", "]", "}">>,
      <<"{", "\"tasks\"", ":", "null", "}">>,
      <<"{", "\"tasks\"", ":", "\"a\"", "}">>,
      <<"{", "\"tasks\"", ":", "[", "\"a\"", ",", "\"b\"", "]", "}">>,
      <<"{", "\"tasks\"", ":", "[", "{", "\"task\"", ":", "\"a\"", ",",
             "\"priority\"", ":", "\"high\"", ",", "\"themes\"", ":", "\"b\"",
             "}", "]", "}">> }

\* The answers tried on POST /ideas/: texts that are no JSON, JSON values
\* that are no object, and objects with and without clean_note.
IdeaOutputs ==
    {out \in LlmOutputs :
        \/ Len(out) < 2
        \/ out[2] \in {"]", "}", "\"clean_note\""} }

\* The answers tried on extract_tasks (all of them) and on
\* extract_tasks_with_context, which parses its answer by the same code: a
\* text that is no JSON and an object holding a task list.
TaskOutputs(o) ==
    IF o = "tasks" THEN LlmOutputs
    ELSE {<<>>, <<"{", "\"tasks\"", ":", "[", "]", "}">>}

(***************************************************************************)
(* Python values: JSON values and the dicts built from them                *)
(***************************************************************************)
JNull == [t |-> "null", v |-> "null"]
JStr(s) == [t |-> "str", v |-> s]
JBool(b) == [t |-> "bool", v |-> b]
JInt(n) == [t |-> "int", v |-> n]
JArr(items) == [t |-> "arr", v |-> items]
JObj(fields) == [t |-> "obj", v |-> fields]
\* A Python str holding LLM text (kept as its lexemes).
JText(toks) == [t |-> "text", v |-> toks]

EmptyDict == [k \in {} |-> JNull]

\* d[key] = val on a dict (a later assignment replaces an earlier one).
DictSet(d, key, val) == (key :> val) @@ d

(***************************************************************************)
(* json.loads                                                              *)
(***************************************************************************)
ParseFail == [ok |-> FALSE, val |-> JNull, next |-> 0]

RECURSIVE ParseValue(_, _), ParseElems(_, _, _), ParseMembers(_, _, _)

\* One JSON value starting at lexeme i.
ParseValue(toks, i) ==
    IF i > Len(toks) THEN ParseFail
    ELSE LET tk == toks[i] IN
         CASE tk = "null" -> [ok |-> TRUE, val |-> JNull, next |-> i + 1]
           [] tk \in StringTokens ->
                [ok |-> TRUE, val |-> JStr(Unquote(tk)), next |-> i + 1]
           [] tk = "[" ->
                IF i + 1 <= Len(toks) /\ toks[i + 1] = "]"
                THEN [ok |-> TRUE, val |-> JArr(<<>>), next |-> i + 2]
                ELSE ParseElems(toks, i + 1, <<>>)
           [] tk = "{" ->
                IF i + 1 <= Len(toks) /\ toks[i + 1] = "}"
                THEN [ok |-> TRUE, val |-> JObj(EmptyDict), next |-> i + 2]
                ELSE ParseMembers(toks, i + 1, EmptyDict)
           [] OTHER -> ParseFail

\* The elements of an array after "[": value ("," value)* "]".
ParseElems(toks, i, acc) ==
    LET r == ParseValue(toks, i) IN
    IF ~r.ok \/ r.next > Len(toks) THEN ParseFail
    ELSE IF toks[r.next] = "]"
         THEN [ok |-> TRUE, val |-> JArr(Append(acc, r.val)), next |-> r.next + 1]
    ELSE IF toks[r.next] = ","
         THEN ParseElems(toks, r.next + 1, Append(acc, r.val))
    ELSE ParseFail

\* The members of an object after "{": string ":" value ("," ...)* "}".
\* A repeated key keeps its last value.
ParseMembers(toks, i, acc) ==
    IF i + 1 > Len(toks) THEN ParseFail
    ELSE IF toks[i] \notin StringTokens \/ toks[i + 1] # ":" THEN ParseFail
    ELSE LET r == ParseValue(toks, i + 2) IN
         IF ~r.ok \/ r.next > Len(toks) THEN ParseFail
         ELSE LET acc2 == DictSet(acc, Unquote(toks[i]), r.val) IN
              IF toks[r.next] = "}"
              THEN [ok |-> TRUE, val |-> JObj(acc2), next |-> r.next + 1]
              ELSE IF toks[r.next] = ","
                   THEN ParseMembers(toks, r.next + 1, acc2)
              ELSE ParseFail

\* json.loads(text): the value, or JSONDecodeError (ok = FALSE) when the text
\* is not exactly one JSON value.
JsonLoads(toks) ==
    LET r == ParseValue(toks, 1) IN
    IF r.ok /\ r.next = Len(toks) + 1
    THEN [ok |-> TRUE, val |-> r.val]
    ELSE [ok |-> FALSE, val |-> JNull]


(***************************************************************************)
(* Outcomes of a call, exceptions                                          *)
(***************************************************************************)
\* at: the step of the handler the exception came from.
NoOutcome == [kind |-> "none", val |-> JNull, exc |-> "none", at |-> "none"]
Return(v) == [kind |-> "return", val |-> v, exc |-> "none", at |-> "none"]
Raise(e, where) == [kind |-> "raise", val |-> JNull, exc |-> e, at |-> where]

\* The RAGException family.
RAGExceptions ==
    {"EmbeddingError", "LLMError", "VectorStoreError", "ConfigurationError"}

IsRAGException(e) == e \in RAGExceptions

\* What a function under @retry(stop=stop_after_attempt(3), wait=...) raises
\* once its last attempt has raised e: the decorator sets no reraise, so the
\* caller gets tenacity's RetryError wrapping the last attempt.
RetryGiveUp(e) == "RetryError"

\* Whether the retry loop runs the function again after failed attempt n.
RetryAgain(n) == n < RetryAttempts

(***************************************************************************)
(* Embedding provider and vector database                                  *)
(***************************************************************************)
\* The vector the provider returns for a text in a role.
Embedding(text, role) == [text |-> text, role |-> role, dim |-> EmbeddingDim]

\* The cosine scores a text's query-role vector may have against the
\* document-role vector of the same text: the two vectors are the
\* provider's (it embeds a text differently in each role), so the score may
\* lie above the configured threshold or below it.
SelfScores == {95, 60}

VARIABLE selfScore    \* the score the provider's vectors give a text against itself

\* The database's cosine score of a stored vector against a query vector:
\* 1 for the same vector, the provider's for the same text in the other
\* role, low for another text.
Cosine(q, d) ==
    IF q = d THEN 100 ELSE IF q.text = d.text THEN selfScore ELSE 30

\* x or default, on numbers: None and 0 both give the default.
OrDefault(x, default) == IF x = 0 THEN default ELSE x

\* {**base, **extra}: the later dict wins on a shared key.
DictMerge(base, extra) == extra @@ base

\* The payload add() writes.
AddPayload(text, metadata) ==
    DictMerge([text |-> text, created_at |-> "now"], metadata)

\* An add that writes under the first identifier, fresh or not.
AddPointFirstId(pts, id, embedding, text, metadata) ==
    (1 :> [vector |-> embedding, payload |-> AddPayload(text, metadata)]) @@ pts

\* add(): the store with one more point under a fresh identifier.
AddPoint(pts, id, embedding, text, metadata) ==
    (id :> [vector |-> embedding, payload |-> AddPayload(text, metadata)]) @@ pts

Min(a, b) == IF a < b THEN a ELSE b

\* add_batch() with metadata_list None: zip pairs the embeddings with the
\* texts, one point each under fresh identifiers from first on, {} as the
\* metadata of each.
AddBatchPoints(pts, first, embeddings, texts) ==
    LET n == Min(Len(embeddings), Len(texts))
    IN [i \in first..(first + n - 1) |->
          [vector |-> embeddings[i - first + 1],
           payload |-> AddPayload(texts[i - first + 1], EmptyDict)]] @@ pts

\* The metadata store_idea() attaches.
StoreIdeaMetadata(metadata) ==
    DictMerge([type |-> "idea", stored_at |-> "now"], metadata)

\* payload.get("text", "")
PayloadText(payload) ==
    IF "text" \in DOMAIN payload THEN payload["text"] ELSE ""

\* {k: v for k, v in payload.items() if k != "text"}
PayloadMetadata(payload) ==
    [k \in (DOMAIN payload) \ {"text"} |-> payload[k]]

Score(pts, q, id) == Cosine(q, pts[id].vector)

RECURSIVE Ranked(_, _, _)
\* The orders in which the database may rank the identifiers in ids: by
\* descending score, points of equal score in any order.
Ranked(pts, q, ids) ==
    IF ids = {} THEN {<<>>}
    ELSE LET best == {i \in ids : \A j \in ids :
                         Score(pts, q, i) >= Score(pts, q, j)}
         IN UNION {{<<b>> \o rest : rest \in Ranked(pts, q, ids \ {b})} :
                      b \in best}

Take(s, n) == SubSeq(s, 1, IF Len(s) < n THEN Len(s) ELSE n)

\* The answers the database's query_points may give: the points scoring at
\* least the threshold, best first, at most limit of them.
QueryPoints(pts, q, limit, threshold) ==
    {Take(r, limit) :
        r \in Ranked(pts, q, {id \in DOMAIN pts : Score(pts, q, id) >= threshold})}

\* A search() that leaves the best hit out of its result.
SearchHitsButBest(pts, embedding, hits) ==
    [i \in 1..(Len(hits) - 1) |->
        [id |-> hits[i + 1],
         text |-> PayloadText(pts[hits[i + 1]].payload),
         score |-> Score(pts, embedding, hits[i + 1]),
         metadata |-> PayloadMetadata(pts[hits[i + 1]].payload)]]

\* search(): the result built from the points the database answered with.
SearchHits(pts, embedding, hits) ==
    [i \in 1..Len(hits) |->
        [id |-> hits[i],
         text |-> PayloadText(pts[hits[i]].payload),
         score |-> Score(pts, embedding, hits[i]),
         metadata |-> PayloadMetadata(pts[hits[i]].payload)]]

\* search(): one result for each answer the database may give to the
\* query it sends.
Search(pts, embedding, top_k, score_threshold) ==
    {SearchHits(pts, embedding, hits) :
        hits \in QueryPoints(pts, embedding, OrDefault(top_k, RagTopK),
                             OrDefault(score_threshold, RagScoreThreshold))}

\* search_texts()
SearchTexts(pts, embedding, top_k, score_threshold) ==
    {[i \in 1..Len(results) |-> results[i].text] :
        results \in Search(pts, embedding, top_k, score_threshold)}

\* retrieve_similar_ideas(), once the query embedding is there.
RetrieveSimilarIdeas(pts, embedding, top_k, score_threshold) ==
    SearchTexts(pts, embedding, OrDefault(top_k, RagTopK),
                OrDefault(score_threshold, RagScoreThreshold))

\* retrieve_similar_ideas_with_scores(), once the query embedding is there.
RetrieveSimilarIdeasWithScores(pts, embedding, top_k, score_threshold) ==
    Search(pts, embedding, OrDefault(top_k, RagTopK),
           OrDefault(score_threshold, RagScoreThreshold))

\* The orders in which the database's scroll may list the points: the code
\* passes no order_by, and the identifiers are random (uuid4), so any order
\* of the stored points can come back.
ScrollOrders(pts) ==
    {order \in [1..Cardinality(DOMAIN pts) -> DOMAIN pts] :
        \A i, j \in DOMAIN order : order[i] = order[j] => i = j}

\* get_all(limit): a scroll of at most limit points, in the scroll's order.
GetAll(pts, limit, order) ==
    LET ids == Take(order, limit)
    IN [i \in 1..Len(ids) |->
          [id |-> ids[i],
           text |-> PayloadText(pts[ids[i]].payload),
           metadata |-> PayloadMetadata(pts[ids[i]].payload)]]

\* A variant of the delete that removes nothing (the selector misses).
DeletePointsNoop(pts, id) == pts

\* The database after delete of a list of one identifier: an identifier it
\* does not hold is no error.
DeletePoints(pts, id) == [i \in (DOMAIN pts) \ {id} |-> pts[i]]

\* delete(): what it returns once the database call has returned.
DeleteReturn(pts, id) == TRUE

\* A constructor that asks for the collection whatever the list holds.
EnsureCollectionAlways(existing) == TRUE

\* _ensure_collection: create_collection is invoked when the configured
\* name is not among the names get_collections lists.
EnsureCollectionCreates(existing) == ~existing

\* create_collection: the database refuses a name it already holds.
CreateCollectionOk(existing, createOk) == createOk /\ ~existing

\* What the database client raises when a call of it fails.
ClientError == "UnexpectedResponse"

\* A handler that lets the client's exception through.
VectorStorePropagates(e) == e

\* except Exception as e: raise VectorStoreError(...), in the constructor
\* and in add, search, get_all and delete.
VectorStoreFailure(e) == "VectorStoreError"

\* count(): the collection's points_count, or 0 when the call fails.
CountResult(ok, pts) == IF ok THEN Cardinality(DOMAIN pts) ELSE 0

Unhealthy(e) == [status |-> "unhealthy", error |-> e]

\* health_check(): a status record, whether the call fails or not.
HealthCheckResult(ok, pts) ==
    IF ok THEN [status |-> "healthy", collection |-> "ideas",
                points_count |-> Cardinality(DOMAIN pts)]
          ELSE Unhealthy(ClientError)

\* get_memory_stats()
MemoryStats(total, health) ==
    [total_ideas |-> total, embedding_provider |-> "voyage",
     embedding_dimension |-> EmbeddingDim, health |-> health]

(***************************************************************************)
(* LLM client                                                              *)
(***************************************************************************)
\* The prompt files' contents, as lines.
RefinePrompt == <<"refine_prompt">>
TaskPromptTemplate == <<"task_extract_prompt", "Thought: {thought}">>

NoRequest ==
    [variant |-> "none", system |-> <<>>, user |-> "", temperature |-> 0,
     response_format |-> "absent"]

\* Strings, character by character.
Char(s, i) == SubSeq(s, i, i)

StartsWith(s, p) == Len(s) >= Len(p) /\ SubSeq(s, 1, Len(p)) = p

EndsWith(s, p) ==
    Len(s) >= Len(p) /\ SubSeq(s, Len(s) - Len(p) + 1, Len(s)) = p

Contains(s, p) ==
    \E i \in 1..(Len(s) - Len(p) + 1) : SubSeq(s, i, i + Len(p) - 1) = p

\* str.find, counted from 1: where p first stands in s, 0 when nowhere.
Find(s, p) ==
    IF Contains(s, p)
    THEN CHOOSE i \in 1..(Len(s) - Len(p) + 1) :
            /\ SubSeq(s, i, i + Len(p) - 1) = p
            /\ \A k \in 1..(i - 1) : SubSeq(s, k, k + Len(p) - 1) # p
    ELSE 0

\* str.replace(old, new): every occurrence, left to right.
RECURSIVE Replace(_, _, _)
Replace(s, old, new) ==
    IF Find(s, old) = 0 THEN s
    ELSE SubSeq(s, 1, Find(s, old) - 1) \o new
           \o Replace(SubSeq(s, Find(s, old) + Len(old), Len(s)), old, new)

\* The lines of a text (its pieces between newline characters).
RECURSIVE Lines(_)
Lines(text) ==
    IF Find(text, "\n") = 0 THEN <<text>>
    ELSE <<SubSeq(text, 1, Find(text, "\n") - 1)>>
           \o Lines(SubSeq(text, Find(text, "\n") + 1, Len(text)))

\* A run_llm_with_context whose block lists the context texts in reverse.
EnhancedPromptReversed(system_prompt, context) ==
    IF Len(context) > 0
    THEN system_prompt \o <<"", "---", "**Relevant Context:**">>
           \o [i \in 1..Len(context) |-> "- " \o context[Len(context) + 1 - i]]
    ELSE system_prompt

\* "\n".join(f"- {c}" for c in context), as the lines of the joined string:
\* each text's first line after the prefix, then its further lines.
RECURSIVE ContextBlock(_)
ContextBlock(context) ==
    IF context = <<>> THEN <<>>
    ELSE <<"- " \o Lines(Head(context))[1]>> \o Tail(Lines(Head(context)))
           \o ContextBlock(Tail(context))

\* run_llm_with_context: the system prompt with the context block appended.
EnhancedPrompt(system_prompt, context) ==
    IF Len(context) > 0
    THEN system_prompt \o <<"", "---", "**Relevant Context:**">>
           \o ContextBlock(context)
    ELSE system_prompt

\* The request run_llm sends (temperature 0 stands for None or 0).
RunLlmRequest(system_prompt, user_input, temperature) ==
    [variant |-> "base", system |-> system_prompt, user |-> user_input,
     temperature |-> OrDefault(temperature, LlmTemperature),
     response_format |-> "absent"]

\* The request run_llm_structured sends; response_format FALSE is None.
RunLlmStructuredRequest(system_prompt, user_input, response_format) ==
    [variant |-> "structured", system |-> system_prompt, user |-> user_input,
     temperature |-> StructuredTemperature,
     response_format |-> IF response_format THEN "json_object" ELSE "None"]

(***************************************************************************)
(* Idea and task services                                                  *)
(***************************************************************************)
\* A process_idea that stores only what its LLM output lets it parse.
StoresOnlyParsed(store, llm_output) == store /\ JsonLoads(llm_output).ok

\* A process_idea that stores whatever the caller's flag says.
StoresRegardless(store, llm_output) == TRUE

\* process_idea step 3: `if store:`, after the LLM call and before the
\* parse of its output.
StoresAfterLlm(store, llm_output) == store

\* A process_idea that raises on the missing prompt file.
ConfigErrorRaised == Raise("ConfigurationError", "prompt")

\* process_idea when the prompt file is missing.
ConfigErrorResult ==
    Return([error |-> JStr("System configuration error"), raw_output |-> JNull])

\* A variant of step 4 whose error result drops the LLM text (raw_output
\* None, as in the configuration-error result).
ProcessIdeaResultNoRaw(llm_output, related_ideas) ==
    LET parsed == JsonLoads(llm_output) IN
    IF ~parsed.ok
    THEN Return([error |-> JStr("LLM returned invalid JSON"),
                 raw_output |-> JNull,
                 context_used |-> JBool(Len(related_ideas) > 0)])
    ELSE IF parsed.val.t = "obj"
    THEN Return(DictSet(DictSet(parsed.val.v,
                                "context_used", JBool(Len(related_ideas) > 0)),
                        "related_ideas_count", JInt(Len(related_ideas))))
    ELSE Raise("TypeError", "parse")

\* process_idea, step 4: parse the LLM output and annotate it.
ProcessIdeaResult(llm_output, related_ideas) ==
    LET parsed == JsonLoads(llm_output) IN
    IF ~parsed.ok
    THEN Return([error |-> JStr("LLM returned invalid JSON"),
                 raw_output |-> JText(llm_output),
                 context_used |-> JBool(Len(related_ideas) > 0)])
    ELSE IF parsed.val.t = "obj"
    THEN Return(DictSet(DictSet(parsed.val.v,
                                "context_used", JBool(Len(related_ideas) > 0)),
                        "related_ideas_count", JInt(Len(related_ideas))))
    ELSE Raise("TypeError", "parse")

\* system_prompt.replace("{thought}", thought): the placeholder replaced
\* wherever it stands in a line, and the lines of the result.
RECURSIVE FormatTaskPrompt(_, _)
FormatTaskPrompt(template, thought) ==
    IF template = <<>> THEN <<>>
    ELSE Lines(Replace(Head(template), "{thought}", thought))
           \o FormatTaskPrompt(Tail(template), thought)

\* extract_tasks_with_context: the context block appended to the prompt.
TaskPromptWithContext(prompt, context) ==
    IF Len(context) > 0
    THEN prompt \o <<"", "Context from related notes:">>
           \o ContextBlock(context)
    ELSE prompt

\* extract_tasks after the LLM call returned: data.get("tasks", []), and []
\* on JSONDecodeError or any other exception (data not a dict).
ExtractTasksResult(response) ==
    LET parsed == JsonLoads(response) IN
    IF ~parsed.ok THEN Return(JArr(<<>>))
    ELSE IF parsed.val.t # "obj" THEN Return(JArr(<<>>))
    ELSE IF "tasks" \in DOMAIN parsed.val.v THEN Return(parsed.val.v["tasks"])
    ELSE Return(JArr(<<>>))

\* extract_tasks when the LLM call raised e: except Exception returns [].
ExtractTasksOnError(e) == Return(JArr(<<>>))

(***************************************************************************)
(* HTTP boundary                                                           *)
(***************************************************************************)
NoHttp == [status |-> 0, body |-> EmptyDict]
Http(status, body) == [status |-> status, body |-> body]

\* raise HTTPException(status_code=..., detail={"error": tag, ...})
HttpError(status, tag) == Http(status, [detail |-> JObj([error |-> JStr(tag)])])

\* The framework's answer when a handler's return value does not validate
\* against its response_model: a plain 500 with no JSON body.
ResponseValidationFailure == Http(500, EmptyDict)

Priorities == {"high", "medium", "low"}

\* schemas.TaskItem
ValidTaskItem(j) ==
    /\ j.t = "obj"
    /\ "task" \in DOMAIN j.v /\ j.v["task"].t = "str"
    /\ "priority" \in DOMAIN j.v /\ j.v["priority"].t = "str"
    /\ j.v["priority"].v \in Priorities

ValidTaskList(j) ==
    j.t = "arr" /\ \A i \in 1..Len(j.v) : ValidTaskItem(j.v[i])

\* A validated item serialised through TaskItem: its two fields only.
TaskItemBody(j) ==
    JObj([key \in {"task", "priority"} |-> j.v[key]])

\* A validated list[TaskItem] as the response carries it.
TaskListBody(j) == JArr([i \in 1..Len(j.v) |-> TaskItemBody(j.v[i])])

ValidStrList(j) ==
    j.t = "arr" /\ \A i \in 1..Len(j.v) : j.v[i].t = "str"

\* The strings a bool field takes for true and for false (the validation
\* is lax and compares in lower case).
TrueStrings ==
    {"1", "ON", "On", "oN", "on", "T", "t", "TRUE", "TRUe", "TRuE", "TRue",
     "TrUE", "TrUe", "TruE", "True", "tRUE", "tRUe", "tRuE", "tRue",
     "trUE", "trUe", "truE", "true", "Y", "y", "YES", "YEs", "YeS", "Yes",
     "yES", "yEs", "yeS", "yes"}

FalseStrings ==
    {"0", "OFF", "OFf", "OfF", "Off", "oFF", "oFf", "ofF", "off", "F", "f",
     "FALSE", "FALSe", "FALsE", "FALse", "FAlSE", "FAlSe", "FAlsE",
     "FAlse", "FaLSE", "FaLSe", "FaLsE", "FaLse", "FalSE", "FalSe",
     "FalsE", "False", "fALSE", "fALSe", "fALsE", "fALse", "fAlSE",
     "fAlSe", "fAlsE", "fAlse", "faLSE", "faLSe", "faLsE", "faLse",
     "falSE", "falSe", "falsE", "false", "N", "n", "NO", "No", "nO", "no"}

\* The lax reading of a string as an int, step by step: surrounding
\* whitespace, one sign, leading zeros, a fraction of one or more zeros,
\* single underscores between digits.
\* The white space trimmed: the ASCII characters and, of the others, those
\* a string of this module can hold (U+0085, U+00A0, U+1680).
Whitespace == {" ", "\t", "\n", "\r", "\f", "", "", " ", " "}

RECURSIVE Trim(_)
Trim(s) ==
    IF Len(s) > 0 /\ Char(s, 1) \in Whitespace THEN Trim(Tail(s))
    ELSE IF Len(s) > 0 /\ Char(s, Len(s)) \in Whitespace
         THEN Trim(SubSeq(s, 1, Len(s) - 1))
         ELSE s

Digits == {"0", "1", "2", "3", "4", "5", "6", "7", "8", "9"}

DigitValue(c) ==
    CASE c = "0" -> 0 [] c = "1" -> 1 [] c = "2" -> 2 [] c = "3" -> 3
      [] c = "4" -> 4 [] c = "5" -> 5 [] c = "6" -> 6 [] c = "7" -> 7
      [] c = "8" -> 8 [] c = "9" -> 9

\* A step's result: a string, or nothing.
Some(s) == [ok |-> TRUE, s |-> s]
None == [ok |-> FALSE, s |-> ""]

StripLeadingZeros(s) ==
    IF Len(s) = 0 \/ Char(s, 1) \notin Digits THEN None
    ELSE IF Char(s, 1) # "0" THEN Some(s)
    ELSE LET rest == {i \in 2..Len(s) : Char(s, i) \notin {"0", "_"}}
             k == CHOOSE i \in rest : \A j \in rest : i <= j
         IN  IF rest = {} THEN Some(Char(s, Len(s)))
             ELSE IF Char(s, k) = "." THEN Some(SubSeq(s, k - 1, Len(s)))
             ELSE IF Char(s, k) \in Digits THEN Some(SubSeq(s, k, Len(s)))
             ELSE None

StripDecimalZeros(s) ==
    IF Find(s, ".") # 0
       /\ Find(s, ".") < Len(s)
       /\ \A i \in (Find(s, ".") + 1)..Len(s) : Char(s, i) = "0"
    THEN SubSeq(s, 1, Find(s, ".") - 1)
    ELSE s

StripUnderscores(s) ==
    IF StartsWith(s, "_") \/ EndsWith(s, "_") \/ ~Contains(s, "_")
       \/ Contains(s, "__")
    THEN s
    ELSE Replace(s, "_", "")

Unsigned(s) ==
    IF StartsWith(s, "+") \/ StartsWith(s, "-") THEN Tail(s) ELSE s

CleanIntStr(str) ==
    LET s == Trim(str)
        body == Unsigned(s)
        lead == StripLeadingZeros(body)
    IN  IF StartsWith(body, "+") \/ StartsWith(body, "-") \/ ~lead.ok
        THEN None
        ELSE Some((IF StartsWith(s, "-") THEN "-" ELSE "")
                    \o StripUnderscores(StripDecimalZeros(lead.s)))

AllDigits(s) == Len(s) > 0 /\ \A i \in 1..Len(s) : Char(s, i) \in Digits

\* The strings an int field takes.
IsIntStr(str) ==
    /\ CleanIntStr(str).ok
    /\ AllDigits(Unsigned(CleanIntStr(str).s))

RECURSIVE DigitsValue(_)
DigitsValue(s) ==
    IF Len(s) = 0 THEN 0
    ELSE 10 * DigitsValue(SubSeq(s, 1, Len(s) - 1))
           + DigitValue(Char(s, Len(s)))

\* The integer such a string denotes.
StrToInt(str) ==
    LET s == CleanIntStr(str).s
    IN  IF StartsWith(s, "-") THEN 0 - DigitsValue(Tail(s))
        ELSE DigitsValue(s)

\* A bool field: a bool, the integers 0 and 1, or one of the strings above.
CoercesToBool(j) ==
    \/ j.t = "bool"
    \/ j.t = "int" /\ j.v \in {0, 1}
    \/ j.t = "str" /\ j.v \in TrueStrings \cup FalseStrings

ToBool(j) ==
    CASE j.t = "bool" -> j
      [] j.t = "int" -> JBool(j.v = 1)
      [] j.t = "str" -> JBool(j.v \in TrueStrings)

\* An int field: an int, a bool (as 0 or 1) or a string that reads as one.
CoercesToInt(j) ==
    \/ j.t = "int"
    \/ j.t = "bool"
    \/ j.t = "str" /\ IsIntStr(j.v)

ToInt(j) ==
    CASE j.t = "int" -> j
      [] j.t = "bool" -> JInt(IF j.v THEN 1 ELSE 0)
      [] j.t = "str" -> JInt(StrToInt(j.v))

\* schemas.IdeaResponse: clean_note is required, the rest have defaults.
ValidIdeaResponse(d) ==
    /\ "clean_note" \in DOMAIN d /\ d["clean_note"].t = "str"
    /\ "themes" \in DOMAIN d => ValidStrList(d["themes"])
    /\ "suggested_tasks" \in DOMAIN d => ValidTaskList(d["suggested_tasks"])
    /\ "context_used" \in DOMAIN d => CoercesToBool(d["context_used"])
    /\ "related_ideas_count" \in DOMAIN d
          => CoercesToInt(d["related_ideas_count"])

FieldOr(d, key, default) == IF key \in DOMAIN d THEN d[key] ELSE default

\* The body serialised through IdeaResponse: its fields only, defaults
\* filled, the bool and the int as validation converted them, each task
\* through TaskItem.
IdeaResponseBody(d) ==
    [clean_note |-> d["clean_note"],
     themes |-> FieldOr(d, "themes", JArr(<<>>)),
     suggested_tasks |-> TaskListBody(FieldOr(d, "suggested_tasks", JArr(<<>>))),
     context_used |-> ToBool(FieldOr(d, "context_used", JBool(FALSE))),
     related_ideas_count |-> ToInt(FieldOr(d, "related_ideas_count", JInt(0)))]

\* POST /ideas/ : submit_idea around process_idea's outcome, then the
\* response_model=IdeaResponse validation of what it returned.
SubmitIdeaHttp(outcome) ==
    IF outcome.kind = "raise"
    THEN IF IsRAGException(outcome.exc)
         THEN HttpError(503, "rag_error")
         ELSE HttpError(500, "internal_error")
    ELSE IF ValidIdeaResponse(outcome.val)
         THEN Http(200, IdeaResponseBody(outcome.val))
         ELSE ResponseValidationFailure

\* len(tasks) on what extract_tasks returned; -1 is TypeError (None has no len).
PyLen(j) ==
    CASE j.t = "arr" -> Len(j.v)
      [] j.t = "obj" -> Cardinality(DOMAIN j.v)
      [] j.t = "str" -> Len(j.v)
      [] OTHER -> -1

\* POST /tasks/extract : extract_tasks_endpoint, then the
\* response_model=TaskExtractResponse validation.
ExtractTasksHttp(outcome) ==
    IF outcome.kind = "raise"
    THEN IF IsRAGException(outcome.exc)
         THEN HttpError(503, "llm_error")
         ELSE HttpError(500, "internal_error")
    ELSE IF PyLen(outcome.val) < 0 THEN HttpError(500, "internal_error")
    ELSE IF ValidTaskList(outcome.val)
         THEN Http(200, [count |-> JInt(PyLen(outcome.val)),
                         tasks |-> TaskListBody(outcome.val)])
         ELSE ResponseValidationFailure

\* GET /ideas/memory : read_memory (response_model=MemoryResponse).
ReadMemoryHttp(outcome) ==
    IF outcome.kind = "raise"
    THEN IF IsRAGException(outcome.exc)
         THEN HttpError(503, "vector_store_error")
         ELSE Http(500, EmptyDict)
    ELSE Http(200, [count |-> JInt(Len(outcome.val)), memories |-> JArr(outcome.val)])

\* DELETE /ideas/memory/{doc_id} : remove_memory.
RemoveMemoryHttp(outcome, doc_id) ==
    IF outcome.kind = "raise"
    THEN IF IsRAGException(outcome.exc)
         THEN HttpError(503, "vector_store_error")
         ELSE Http(500, EmptyDict)
    ELSE Http(200, [success |-> outcome.val, deleted_id |-> JInt(doc_id)])

\* GET /ideas/memory/stats : get_stats.
GetStatsHttp(outcome) ==
    IF outcome.kind = "raise"
    THEN IF IsRAGException(outcome.exc)
         THEN HttpError(503, "vector_store_error")
         ELSE Http(500, EmptyDict)
    ELSE Http(200, outcome.val)

\* An overall status that ignores the sub-checks.
HealthOverallOk(qdrant) == "ok"

\* GET /health: the overall status, from the vector store's sub-check.
HealthOverall(qdrant) ==
    IF qdrant.status = "unhealthy" THEN "degraded" ELSE "ok"

\* GET /health: what health_check() in main returns.
HealthBody(qdrant) ==
    [status |-> HealthOverall(qdrant), version |-> "1.0.0",
     services |-> [qdrant |-> qdrant,
                   embedding |-> [status |-> "healthy"],
                   llm |-> [status |-> "healthy"]]]

\* schemas.HealthResponse
ValidHealthResponse(body) == body.status \in {"ok", "degraded", "unhealthy"}

HealthHttp(outcome) ==
    IF outcome.kind = "raise" THEN Http(500, EmptyDict)
    ELSE IF ValidHealthResponse(outcome.val) THEN Http(200, outcome.val)
    ELSE ResponseValidationFailure

(***************************************************************************)
(* State                                                                   *)
(***************************************************************************)
VARIABLES
    pc,               \* where the request being served stands
    op,               \* the operation being served, or served last
    req,              \* its arguments
    vsInit,           \* the vector-store singleton has been constructed
    collectionExists, \* the database holds the configured collection
    collection,       \* the vector parameters that collection was created with
    points,           \* the collection: identifier -> [vector, payload]
    nextId,           \* the next fresh identifier
    attempts,         \* the number of the running attempt of the inner retry loop
    outer,            \* the number of the running attempt of the outer retry loop
    related,          \* the texts retrieval returned
    llmOut,           \* <<text>> once the LLM call has returned, <<>> before
    svc,              \* the outcome of the service function
    http,             \* the response sent
    lastReq,          \* the last chat-completion request sent
    llmCalls,         \* chat-completion requests sent for this request
    deleted,          \* identifiers of the records a delete has removed
    removed,          \* whether this request's delete found its record stored
    lastInit,         \* what the store's constructor did, if it ran this request
    failed,           \* the store methods whose database call failed, this request
    total,            \* what count() returned
    calls,            \* the provider and store calls of this request, in order
    added,            \* identifiers of the records this request has written
    thr,              \* each worker thread's place in the singleton getters
    handle,           \* the global _vector_store: 0 for None, else the n-th client
    built,            \* QdrantVectorStore objects constructed in this process
    ensured,          \* runs of _ensure_collection begun in this process
    service,          \* the global _service: 0 for None, else the n-th service
    servicesBuilt,    \* EmbeddingService objects constructed in this process
    voyageKey         \* settings.voyage_api_key is not empty

\* selfScore, above, is the one further variable.

vars == <<pc, op, req, vsInit, collectionExists, collection, points, nextId, attempts,
          outer, related, llmOut, svc, http, lastReq, llmCalls, deleted,
          removed, lastInit, failed, total, calls, added, thr, handle, built,
          ensured, service, servicesBuilt, voyageKey, selfScore>>

\* The singletons as concurrent threads see them, the configuration and
\* the provider's scoring.
threadVars == <<thr, handle, built, ensured, service, servicesBuilt, voyageKey,
                selfScore>>

\* The database, its client and the record of what was deleted.
dbVars == <<vsInit, collectionExists, collection, points, nextId, deleted,
            threadVars>>

storeVars == <<vsInit, collectionExists, collection, points, nextId, deleted,
               lastInit, threadVars>>

\* The arguments a caller leaves out: top_k=None, score_threshold=None,
\* metadata=None; and the prompt file of the request's service is in place.
DefaultArgs ==
    [top_k |-> 0, score_threshold |-> 0, metadata |-> EmptyDict, prompt |-> TRUE,
     texts |-> <<>>, embeddings |-> <<>>, system |-> <<>>]

\* The worker threads of the server's pool that serve the sync endpoints.
Threads == {1, 2}

\* The callers of the getters, by the getters they call: store_idea and the
\* two retrieve functions call get_embedding_service() and then
\* get_vector_store(); get_all_memories, delete_idea and the health check
\* call get_vector_store() only; get_memory_stats calls get_vector_store()
\* and then get_embedding_service(); the embedding module's embed_text and
\* embed_query call get_embedding_service() only.
Callers == {"store_idea", "get_all_memories", "get_memory_stats", "embed_text"}

\* A thread outside the getters: caller is the function it last ran, found
\* what its get_collections listed, got and gotService the handles its last
\* calls returned, calls its calls so far, raised whether its last call
\* raised.
ThreadIdle == [pc |-> "idle", caller |-> "none", found |-> FALSE, got |-> 0,
               gotService |-> 0, calls |-> 0, raised |-> FALSE]

\* The vector parameters of a collection: its vectors' size and the distance
\* it compares them by.
VectorParams(size, distance) == [size |-> size, distance |-> distance]

\* No collection of the configured name.
NoCollection == VectorParams(0, "none")

\* What the constructor passes to create_collection; embedding_dim 0 stands
\* for None.
CreateCollectionParams(embedding_dim) ==
    VectorParams(OrDefault(embedding_dim, EmbeddingDim), "Cosine")

\* The parameters a collection found at start-up may have: the configured
\* ones, or those of a deployment with another embedding dimension or
\* another distance.
ExistingParams ==
    {CreateCollectionParams(EmbeddingDim), VectorParams(768, "Cosine"),
     VectorParams(EmbeddingDim, "Euclid")}

\* The constructor has not run (in this request).
NoInit == [ran |-> FALSE, listed |-> FALSE, found |-> FALSE, created |-> FALSE]

NoPoints == [i \in {} |-> [vector |-> Embedding("", "document"), payload |-> EmptyDict]]

\* The state after start-up, over a database whose collection of the
\* configured name, when there is one, has one of the given parameters,
\* and with a provider that scores a text against itself by one of the
\* given scores.
StartUp(existing, keys, scores) ==
    /\ pc = "idle"
    /\ op = "none"
    /\ req = [text |-> "", store |-> FALSE, id |-> 0, context |-> <<>>]
                @@ DefaultArgs
    /\ vsInit = FALSE
    /\ collectionExists \in BOOLEAN
    /\ collection \in (IF collectionExists THEN existing ELSE {NoCollection})
    /\ points = NoPoints
    /\ nextId = 1
    /\ attempts = 1
    /\ outer = 1
    /\ related = <<>>
    /\ llmOut = <<>>
    /\ svc = NoOutcome
    /\ http = NoHttp
    /\ lastReq = NoRequest
    /\ llmCalls = 0
    /\ deleted = {}
    /\ removed = FALSE
    /\ lastInit = NoInit
    /\ failed = {}
    /\ total = 0
    /\ calls = <<>>
    /\ added = {}
    /\ thr = [t \in Threads |-> ThreadIdle]
    /\ handle = 0
    /\ built = 0
    /\ ensured = 0
    /\ service = 0
    /\ servicesBuilt = 0
    /\ voyageKey \in keys
    /\ selfScore \in scores

\* Start-up over a database that this deployment alone has written to.
\* The provider's vectors put a text above the configured threshold
\* against itself, so that what is stored can be recalled.
Init ==
    StartUp({CreateCollectionParams(EmbeddingDim)}, BOOLEAN,
            {score \in SelfScores : score >= RagScoreThreshold})

\* Start-up with a provider whose vectors may put a text above the
\* configured threshold against itself, or below it.
InitAnyProvider ==
    StartUp({CreateCollectionParams(EmbeddingDim)}, BOOLEAN, SelfScores)

\* Start-up over a database whose collection may have been created under
\* another configuration.
InitAnyDatabase ==
    StartUp(ExistingParams, BOOLEAN,
            {score \in SelfScores : score >= RagScoreThreshold})

\* A handler starts: the per-request state is fresh.
Begin(o, r) ==
    /\ pc = "idle"
    /\ op' = o
    /\ req' = r @@ DefaultArgs
    /\ attempts' = 1
    /\ outer' = 1
    /\ related' = <<>>
    /\ llmOut' = <<>>
    /\ http' = NoHttp
    /\ lastReq' = NoRequest
    /\ llmCalls' = 0
    /\ failed' = {}
    /\ total' = 0
    /\ calls' = <<>>
    /\ added' = {}
    /\ lastInit' = NoInit
    /\ removed' = FALSE

\* A process_idea that generates before it retrieves.
AfterStoreGenerateFirst(o) ==
    CASE o = "idea" -> "llm"
      [] o = "delete" -> "delete"
      [] o = "get_all" -> "scroll"
      [] o = "store" -> "embed_doc"
      [] o = "retrieve" -> "embed_query"
      [] o = "stats" -> "get_service"
      [] o = "health" -> "health_check"
      [] o = "add_batch" -> "batch_upsert"

\* The step after the vector-store singleton is at hand.
AfterStore(o) ==
    CASE o = "idea" -> "embed_query"
      [] o = "delete" -> "delete"
      [] o = "get_all" -> "scroll"
      [] o = "store" -> "embed_doc"
      [] o = "retrieve" -> "embed_query"
      [] o = "stats" -> "get_service"
      [] o = "health" -> "health_check"
      [] o = "add_batch" -> "batch_upsert"

\* What a failed construction of the vector store comes to: the exception,
\* which GET /health catches and reports.
InitFailure(o) ==
    IF o = "health"
    THEN Return(HealthBody(Unhealthy(VectorStoreFailure(ClientError))))
    ELSE Raise(VectorStoreFailure(ClientError), "get_store")

(***************************************************************************)
(* POST /ideas/ : process_idea                                             *)
(***************************************************************************)
\* The request arrives; process_idea reads its prompt file.
SubmitIdea(text, store, promptPresent) ==
    /\ store => nextId <= MaxIds
    /\ Begin("idea", [text |-> text, store |-> store, id |-> 0,
                      context |-> <<>>, prompt |-> promptPresent])
    /\ IF promptPresent
       THEN pc' = "get_service" /\ svc' = NoOutcome
       ELSE pc' = "respond" /\ svc' = ConfigErrorResult
    /\ UNCHANGED dbVars

\* get_embedding_service(): the singleton, constructed on first use; the
\* constructor raises EmbeddingError when the API key is empty, and makes no
\* remote call.  The retriever's functions call it before get_vector_store,
\* get_memory_stats after.
GetEmbeddingService ==
    /\ pc = "get_service"
    /\ IF voyageKey
       THEN /\ pc' = IF op = "stats" THEN "count" ELSE "get_store"
            /\ UNCHANGED svc
       ELSE /\ svc' = Raise("EmbeddingError", "get_service")
            /\ pc' = "respond"
    /\ UNCHANGED <<op, req, attempts, outer, related, llmOut, http, lastReq,
                   llmCalls, failed, total, calls, added>>
    /\ UNCHANGED <<removed, storeVars>>

\* get_vector_store(): `if _vector_store is None`; the singleton at hand is
\* returned, and else the constructor begins.
GetVectorStore ==
    /\ pc = "get_store"
    /\ IF vsInit
       THEN pc' = AfterStore(op) /\ UNCHANGED lastInit
       ELSE pc' = "store_list" /\ lastInit' = [NoInit EXCEPT !.ran = TRUE]
    /\ UNCHANGED <<op, req, attempts, outer, related, llmOut, svc, http,
                   lastReq, llmCalls, failed, total, calls, added>>
    /\ UNCHANGED <<removed, dbVars>>

\* _ensure_collection: get_collections, and the decision to create.  With
\* the name in the list the constructor returns and the singleton is
\* assigned.
GetCollections(ok) ==
    /\ pc = "store_list"
    /\ calls' = Append(calls, "get_collections")
    /\ IF ~ok
       THEN /\ svc' = InitFailure(op)
            /\ failed' = failed \cup {"init"}
            /\ pc' = "respond"
            /\ UNCHANGED <<vsInit, lastInit>>
       ELSE /\ lastInit' = [ran |-> TRUE, listed |-> TRUE,
                            found |-> collectionExists,
                            created |-> EnsureCollectionCreates(collectionExists)]
            /\ IF EnsureCollectionCreates(collectionExists)
               THEN pc' = "store_create" /\ UNCHANGED vsInit
               ELSE pc' = AfterStore(op) /\ vsInit' = TRUE
            /\ UNCHANGED <<svc, failed>>
    /\ UNCHANGED <<op, req, collectionExists, collection, points, nextId,
                   attempts, outer, related, llmOut, http, lastReq, llmCalls,
                   deleted, removed, total, added>>
    /\ UNCHANGED threadVars

\* _ensure_collection: create_collection, for want of the name in the list
\* read; then the constructor returns and the singleton is assigned.
CreateCollection(ok) ==
    /\ pc = "store_create"
    /\ calls' = Append(calls, "create_collection")
    /\ IF CreateCollectionOk(collectionExists, ok)
       THEN /\ vsInit' = TRUE
            /\ collectionExists' = TRUE
            /\ collection' = CreateCollectionParams(EmbeddingDim)
            /\ points' = NoPoints
            /\ pc' = AfterStore(op)
            /\ UNCHANGED <<svc, failed>>
       ELSE /\ svc' = InitFailure(op)
            /\ failed' = failed \cup {"init"}
            /\ pc' = "respond"
            /\ UNCHANGED <<vsInit, collectionExists, collection, points>>
    /\ UNCHANGED <<op, req, nextId, attempts, outer, related, llmOut, http,
                   lastReq, llmCalls, deleted, removed, lastInit, total, added>>
    /\ UNCHANGED threadVars

(***************************************************************************)
(* Requests served at the same time                                        *)
(*                                                                         *)
(* The handlers are sync functions run in the server's thread pool, so     *)
(* another request can be served between any two steps of this one.  What  *)
(* it does to this one it does through the database and the singleton:     *)
(* it may create the collection, assign the singleton, store a record or   *)
(* delete one.  This request sees the database only in its database calls, *)
(* so what the other does is placed before one of those: done before any   *)
(* other step it would be seen by the same call, in the same way.          *)
(***************************************************************************)
\* Where this request stands when its next step is a database call.
DatabaseSteps ==
    {"store_list", "store_create", "search", "upsert", "batch_upsert",
     "delete", "scroll", "count", "health_check"}

\* Another request's constructor creates the collection.
OtherCreatesCollection ==
    /\ pc \in DatabaseSteps
    /\ ~collectionExists
    /\ collectionExists' = TRUE
    /\ collection' = CreateCollectionParams(EmbeddingDim)
    /\ UNCHANGED <<pc, op, req, vsInit, points, nextId, attempts, outer,
                   related, llmOut, svc, http, lastReq, llmCalls, deleted,
                   removed, lastInit, failed, total, calls, added>>
    /\ UNCHANGED threadVars

\* Another request's get_vector_store assigns the singleton.
OtherAssignsStore ==
    /\ pc \in DatabaseSteps
    /\ collectionExists
    /\ ~vsInit
    /\ vsInit' = TRUE
    /\ UNCHANGED <<pc, op, req, collectionExists, collection, points, nextId,
                   attempts, outer, related, llmOut, svc, http, lastReq,
                   llmCalls, deleted, removed, lastInit, failed, total, calls,
                   added>>
    /\ UNCHANGED threadVars

\* Another POST /ideas/ stores its text, through the singleton.
OtherStores(text) ==
    /\ pc \in DatabaseSteps
    /\ vsInit
    /\ collectionExists
    /\ voyageKey
    /\ nextId <= MaxIds
    /\ points' = AddPoint(points, nextId, Embedding(text, "document"), text,
                          StoreIdeaMetadata([source |-> "user_input"]))
    /\ nextId' = nextId + 1
    /\ UNCHANGED <<pc, op, req, vsInit, collectionExists, collection, attempts,
                   outer, related, llmOut, svc, http, lastReq, llmCalls,
                   deleted, removed, lastInit, failed, total, calls, added>>
    /\ UNCHANGED threadVars

\* Another DELETE /ideas/memory/{doc_id} removes a stored record, through
\* the singleton.
OtherDeletes(id) ==
    /\ pc \in DatabaseSteps
    /\ vsInit
    /\ id \in DOMAIN points
    /\ points' = DeletePoints(points, id)
    /\ deleted' = deleted \cup {id}
    /\ UNCHANGED <<pc, op, req, vsInit, collectionExists, collection, nextId,
                   attempts, outer, related, llmOut, svc, http, lastReq,
                   llmCalls, removed, lastInit, failed, total, calls, added>>
    /\ UNCHANGED threadVars

\* A step of a request served at the same time.
Overlap ==
    \/ OtherCreatesCollection
    \/ OtherAssignsStore
    \/ \E text \in IdeaTexts : OtherStores(text)
    \/ \E id \in DocIds : OtherDeletes(id)

\* The process restarts: the module is loaded afresh, its singleton is
\* unset and nothing of the last request is left; the database keeps what
\* it holds.
Restart ==
    /\ vsInit
    /\ Begin("none", [text |-> "", store |-> FALSE, id |-> 0, context |-> <<>>])
    /\ svc' = NoOutcome
    /\ vsInit' = FALSE
    /\ UNCHANGED <<pc, collectionExists, collection, points, nextId, deleted>>
    /\ UNCHANGED threadVars

\* One attempt of _call_api under its retry loop, for embed_query (before
\* the search) or embed_document (before the upsert).
EmbedCall(ok) ==
    /\ pc \in {"embed_query", "embed_doc"}
    /\ calls' = IF attempts > 1 THEN calls
                 ELSE Append(calls, IF pc = "embed_query" THEN "embed_query"
                                                          ELSE "embed_document")
    /\ IF ok
       THEN /\ pc' = IF pc = "embed_query" THEN "search" ELSE "upsert"
            /\ attempts' = 1
            /\ UNCHANGED svc
       ELSE IF RetryAgain(attempts)
       THEN /\ attempts' = attempts + 1
            /\ UNCHANGED <<pc, svc>>
       ELSE /\ svc' = Raise(RetryGiveUp("EmbeddingError"), pc)
            /\ pc' = "respond"
            /\ UNCHANGED attempts
    /\ UNCHANGED <<op, req, outer, related, llmOut, http, lastReq, llmCalls,
                   failed, total, added>>
    /\ UNCHANGED <<removed, storeVars>>

\* The search of retrieve_similar_ideas (process_idea calls it with the
\* text alone) or of retrieve_similar_ideas_with_scores.
SearchCall(ok) ==
    /\ pc = "search"
    /\ calls' = Append(calls, "search")
    /\ IF ok /\ op = "retrieve"
       THEN /\ \E results \in RetrieveSimilarIdeasWithScores(points,
                                  Embedding(req.text, "query"),
                                  req.top_k, req.score_threshold) :
                  svc' = Return(results)
            /\ pc' = "respond"
            /\ UNCHANGED related
       ELSE IF ok
       THEN /\ related' \in RetrieveSimilarIdeas(points,
                                Embedding(req.text, "query"),
                                req.top_k, req.score_threshold)
            /\ pc' = "llm"
            /\ UNCHANGED svc
       ELSE /\ svc' = Raise(VectorStoreFailure(ClientError), "search")
            /\ pc' = "respond"
            /\ UNCHANGED related
    /\ failed' = IF ok THEN failed ELSE failed \cup {"search"}
    /\ UNCHANGED <<op, req, attempts, outer, llmOut, http, lastReq, llmCalls,
                   total, added>>
    /\ UNCHANGED <<removed, storeVars>>

\* One chat-completion request of run_llm, itself under a retry loop, called
\* by run_llm_with_context under a retry loop of its own.
LlmCall(ok, out) ==
    /\ pc = "llm"
    /\ calls' = IF llmCalls > 0 THEN calls ELSE Append(calls, "llm")
    /\ lastReq' = RunLlmRequest(EnhancedPrompt(RefinePrompt, related), req.text, 0)
    /\ llmCalls' = llmCalls + 1
    /\ IF ok
       THEN /\ llmOut' = <<out>>
            /\ attempts' = 1
            /\ UNCHANGED outer
            /\ IF StoresAfterLlm(req.store, out)
               THEN pc' = "embed_doc" /\ UNCHANGED svc
               ELSE pc' = "respond" /\ svc' = ProcessIdeaResult(out, related)
       ELSE IF RetryAgain(attempts)
       THEN /\ attempts' = attempts + 1
            /\ UNCHANGED <<pc, svc, outer, llmOut>>
       ELSE IF RetryAgain(outer)
       THEN /\ outer' = outer + 1
            /\ attempts' = 1
            /\ UNCHANGED <<pc, svc, llmOut>>
       ELSE /\ svc' = Raise(RetryGiveUp(RetryGiveUp("LLMError")), "llm")
            /\ pc' = "respond"
            /\ UNCHANGED <<attempts, outer, llmOut>>
    /\ UNCHANGED <<op, req, related, http, failed, total, added>>
    /\ UNCHANGED <<removed, storeVars>>

\* The system prompts, context lists and user texts a caller of
\* run_llm_with_context may pass; one context text holds a newline.
SystemPrompts == {RefinePrompt, <<"p1", "p2">>}
ContextTexts == {"ta", "tb", "tc\ntd"}
Contexts ==
    {<<>>} \cup {<<c>> : c \in ContextTexts}
           \cup {<<c, d>> : c \in ContextTexts, d \in ContextTexts}

\* run_llm_with_context(system_prompt, user_input, context)
SubmitLlmWithContext(system_prompt, user_input, context) ==
    /\ Begin("llm_ctx", [text |-> user_input, store |-> FALSE, id |-> 0,
                         context |-> context, system |-> system_prompt])
    /\ pc' = "llm_ctx"
    /\ svc' = NoOutcome
    /\ UNCHANGED dbVars

\* One chat-completion request of run_llm under run_llm_with_context, each
\* under its own retry loop.
LlmWithContextCall(ok, out) ==
    /\ pc = "llm_ctx"
    /\ calls' = IF llmCalls > 0 THEN calls ELSE Append(calls, "llm")
    /\ lastReq' = RunLlmRequest(EnhancedPrompt(req.system, req.context),
                                req.text, 0)
    /\ llmCalls' = llmCalls + 1
    /\ IF ok
       THEN /\ llmOut' = <<out>>
            /\ svc' = Return(out)
            /\ pc' = "respond"
            /\ UNCHANGED <<attempts, outer>>
       ELSE IF RetryAgain(attempts)
       THEN /\ attempts' = attempts + 1
            /\ UNCHANGED <<pc, svc, outer, llmOut>>
       ELSE IF RetryAgain(outer)
       THEN /\ outer' = outer + 1
            /\ attempts' = 1
            /\ UNCHANGED <<pc, svc, llmOut>>
       ELSE /\ svc' = Raise(RetryGiveUp(RetryGiveUp("LLMError")), "llm")
            /\ pc' = "respond"
            /\ UNCHANGED <<attempts, outer, llmOut>>
    /\ UNCHANGED <<op, req, related, http, failed, total, added>>
    /\ UNCHANGED <<removed, storeVars>>

\* vector_store.add of store_idea; store_idea returns the identifier, and
\* process_idea, which passed {"source": "user_input"}, goes on to parse the
\* LLM output.
UpsertCall(ok) ==
    /\ pc = "upsert"
    /\ calls' = Append(calls, "add")
    /\ IF ok
       THEN /\ points' = AddPoint(points, nextId,
                                  Embedding(req.text, "document"), req.text,
                                  StoreIdeaMetadata(
                                      IF op = "idea"
                                      THEN [source |-> "user_input"]
                                      ELSE req.metadata))
            /\ nextId' = nextId + 1
            /\ svc' = IF op = "idea"
                      THEN ProcessIdeaResult(llmOut[1], related)
                      ELSE Return(JInt(nextId))
       ELSE /\ svc' = Raise(VectorStoreFailure(ClientError), "upsert")
            /\ UNCHANGED <<points, nextId>>
    /\ failed' = IF ok THEN failed ELSE failed \cup {"add"}
    /\ added' = IF ok THEN added \cup {nextId} ELSE added
    /\ pc' = "respond"
    /\ UNCHANGED total
    /\ UNCHANGED <<op, req, vsInit, collectionExists, collection, attempts, outer, related,
                   llmOut, http, lastReq, llmCalls, deleted, removed, lastInit>>
    /\ UNCHANGED threadVars

(***************************************************************************)
(* POST /tasks/extract : extract_tasks, and extract_tasks_with_context     *)
(***************************************************************************)
SubmitTasks(o, text, context, promptPresent) ==
    /\ Begin(o, [text |-> text, store |-> FALSE, id |-> 0,
                 context |-> context, prompt |-> promptPresent])
    /\ IF promptPresent
       THEN pc' = "llm_structured" /\ svc' = NoOutcome
       ELSE pc' = "respond" /\ svc' = Return(JArr(<<>>))
    /\ UNCHANGED dbVars

\* The one chat-completion request of run_llm_structured, called without a
\* response_format argument.
LlmStructuredCall(ok, out) ==
    /\ pc = "llm_structured"
    /\ calls' = Append(calls, "llm_structured")
    /\ lastReq' = RunLlmStructuredRequest(
                     TaskPromptWithContext(
                         FormatTaskPrompt(TaskPromptTemplate, req.text),
                         req.context),
                     req.text, FALSE)
    /\ llmCalls' = llmCalls + 1
    /\ IF ok
       THEN llmOut' = <<out>> /\ svc' = ExtractTasksResult(out)
       ELSE llmOut' = <<>> /\ svc' = ExtractTasksOnError("LLMError")
    /\ pc' = "respond"
    /\ UNCHANGED <<op, req, attempts, outer, related, http, failed, total, added>>
    /\ UNCHANGED <<removed, storeVars>>

(***************************************************************************)
(* DELETE /ideas/memory/{doc_id} and GET /ideas/memory                     *)
(***************************************************************************)
SubmitDelete(id) ==
    /\ Begin("delete", [text |-> "", store |-> FALSE, id |-> id, context |-> <<>>])
    /\ pc' = "get_store"
    /\ svc' = NoOutcome
    /\ UNCHANGED dbVars

\* delete(doc_id): the database call, then return True.
DeleteCall(ok) ==
    /\ pc = "delete"
    /\ calls' = Append(calls, "delete")
    /\ IF ok
       THEN /\ points' = DeletePoints(points, req.id)
            /\ deleted' = deleted \cup ({req.id} \cap DOMAIN points)
            /\ removed' = (req.id \in DOMAIN points)
            /\ svc' = Return(JBool(DeleteReturn(points, req.id)))
       ELSE /\ svc' = Raise(VectorStoreFailure(ClientError), "delete")
            /\ UNCHANGED <<points, deleted, removed>>
    /\ failed' = IF ok THEN failed ELSE failed \cup {"delete"}
    /\ pc' = "respond"
    /\ UNCHANGED <<total, added>>
    /\ UNCHANGED <<op, req, vsInit, collectionExists, collection, nextId, attempts, outer,
                   related, llmOut, http, lastReq, llmCalls, lastInit>>
    /\ UNCHANGED threadVars

SubmitGetAll ==
    /\ Begin("get_all", [text |-> "", store |-> FALSE, id |-> 0, context |-> <<>>])
    /\ pc' = "get_store"
    /\ svc' = NoOutcome
    /\ UNCHANGED dbVars

\* get_all(): the scroll with the default limit.
ScrollCall(ok) ==
    /\ pc = "scroll"
    /\ calls' = Append(calls, "get_all")
    /\ IF ok
       THEN \E order \in ScrollOrders(points) :
               svc' = Return(GetAll(points, GetAllLimit, order))
       ELSE svc' = Raise(VectorStoreFailure(ClientError), "scroll")
    /\ failed' = IF ok THEN failed ELSE failed \cup {"get_all"}
    /\ pc' = "respond"
    /\ UNCHANGED <<op, req, attempts, outer, related, llmOut, http, lastReq,
                   llmCalls, total, added>>
    /\ UNCHANGED <<removed, storeVars>>

(***************************************************************************)
(* GET /ideas/memory/stats and GET /health                                 *)
(***************************************************************************)
SubmitStats ==
    /\ Begin("stats", [text |-> "", store |-> FALSE, id |-> 0, context |-> <<>>])
    /\ pc' = "get_store"
    /\ svc' = NoOutcome
    /\ UNCHANGED dbVars

\* count(), called by get_memory_stats.
CountCall(ok) ==
    /\ pc = "count"
    /\ calls' = Append(calls, "count")
    /\ total' = CountResult(ok, points)
    /\ failed' = IF ok THEN failed ELSE failed \cup {"count"}
    /\ pc' = "health_check"
    /\ UNCHANGED <<op, req, attempts, outer, related, llmOut, svc, http,
                   lastReq, llmCalls, added>>
    /\ UNCHANGED <<removed, storeVars>>

SubmitHealth ==
    /\ Begin("health", [text |-> "", store |-> FALSE, id |-> 0, context |-> <<>>])
    /\ pc' = "get_store"
    /\ svc' = NoOutcome
    /\ UNCHANGED dbVars

\* health_check() of the store, called by get_memory_stats and by GET /health.
HealthCall(ok) ==
    /\ pc = "health_check"
    /\ calls' = Append(calls, "health_check")
    /\ svc' = IF op = "stats"
              THEN Return(MemoryStats(total, HealthCheckResult(ok, points)))
              ELSE Return(HealthBody(HealthCheckResult(ok, points)))
    /\ failed' = IF ok THEN failed ELSE failed \cup {"health_check"}
    /\ pc' = "respond"
    /\ UNCHANGED <<op, req, attempts, outer, related, llmOut, http, lastReq,
                   llmCalls, total, added>>
    /\ UNCHANGED <<removed, storeVars>>

(***************************************************************************)
(* Direct calls of the retriever's functions                               *)
(***************************************************************************)
\* The metadata a caller of store_idea may pass: none, or a map with a key
\* of its own choosing.
Metadatas == {EmptyDict, [type |-> "note"], [text |-> ""]}

\* The top_k and the score_threshold (in hundredths) a caller may pass;
\* 0 stands for 0 and for None alike, as `or` treats them alike.
TopKs == {0, 1, 2}
Thresholds == {0, 20, 96}

\* store_idea(text, metadata)
SubmitStore(text, metadata, cap) ==
    /\ nextId <= cap
    /\ Begin("store", [text |-> text, store |-> TRUE, id |-> 0,
                       context |-> <<>>, metadata |-> metadata])
    /\ pc' = "get_service"
    /\ svc' = NoOutcome
    /\ UNCHANGED dbVars

\* retrieve_similar_ideas_with_scores(text, top_k, score_threshold)
SubmitRetrieve(text, top_k, score_threshold) ==
    /\ Begin("retrieve", [text |-> text, store |-> FALSE, id |-> 0,
                          context |-> <<>>, top_k |-> top_k,
                          score_threshold |-> score_threshold])
    /\ pc' = "get_service"
    /\ svc' = NoOutcome
    /\ UNCHANGED dbVars

\* The texts a caller of add_batch may pass, and their embeddings.
BatchTexts == {<<>>, <<"ta">>, <<"tb", "ta">>}

Embeddings(texts) == [i \in 1..Len(texts) |-> Embedding(texts[i], "document")]

\* vector_store.add_batch(embeddings, texts), the embeddings one short of
\* the texts or as many.
SubmitAddBatch(texts, short, cap) ==
    /\ nextId + Len(texts) - 1 <= cap
    /\ short => texts # <<>>
    /\ Begin("add_batch",
             [text |-> "", store |-> TRUE, id |-> 0, context |-> <<>>,
              texts |-> texts,
              embeddings |-> IF short THEN Tail(Embeddings(texts))
                                      ELSE Embeddings(texts)])
    /\ pc' = "get_store"
    /\ svc' = NoOutcome
    /\ UNCHANGED dbVars

\* add_batch(): the length check, then the one upsert of all the points.
BatchUpsertCall(ok) ==
    /\ pc = "batch_upsert"
    /\ IF Len(req.embeddings) # Len(req.texts)
       THEN /\ svc' = Raise("VectorStoreError", "add_batch")
            /\ UNCHANGED <<points, nextId, added, failed, calls>>
       ELSE /\ calls' = Append(calls, "add_batch")
            /\ IF ok
               THEN /\ points' = AddBatchPoints(points, nextId, req.embeddings,
                                                req.texts)
                    /\ nextId' = nextId + Len(req.texts)
                    /\ added' = added \cup (nextId..(nextId + Len(req.texts) - 1))
                    /\ svc' = Return([i \in 1..Len(req.texts) |-> nextId + i - 1])
                    /\ UNCHANGED failed
               ELSE /\ svc' = Raise(VectorStoreFailure(ClientError), "batch_upsert")
                    /\ failed' = failed \cup {"add_batch"}
                    /\ UNCHANGED <<points, nextId, added>>
    /\ pc' = "respond"
    /\ UNCHANGED <<op, req, vsInit, collectionExists, collection, attempts, outer, related,
                   llmOut, http, lastReq, llmCalls, deleted, removed, lastInit,
                   total>>
    /\ UNCHANGED threadVars

(***************************************************************************)
(* The response                                                            *)
(***************************************************************************)
HttpFor(o, outcome, r) ==
    CASE o = "idea" -> SubmitIdeaHttp(outcome)
      [] o = "tasks" -> ExtractTasksHttp(outcome)
      [] o = "get_all" -> ReadMemoryHttp(outcome)
      [] o = "delete" -> RemoveMemoryHttp(outcome, r.id)
      [] o = "stats" -> GetStatsHttp(outcome)
      [] o = "health" -> HealthHttp(outcome)
      [] OTHER -> NoHttp

\* The handler returns or raises and the response goes out.
Respond ==
    /\ pc = "respond"
    /\ http' = HttpFor(op, svc, req)
    /\ pc' = "idle"
    /\ UNCHANGED <<op, req, attempts, outer, related, llmOut, svc, lastReq,
                   llmCalls, failed, total, calls, added>>
    /\ UNCHANGED <<removed, storeVars>>

Next ==
    \/ \E text \in IdeaTexts, store \in BOOLEAN, present \in BOOLEAN :
          SubmitIdea(text, store, present)
    \/ GetEmbeddingService
    \/ GetVectorStore
    \/ \E ok \in BOOLEAN : GetCollections(ok)
    \/ \E ok \in BOOLEAN : CreateCollection(ok)
    \/ Restart
    \/ \E ok \in BOOLEAN : EmbedCall(ok)
    \/ \E ok \in BOOLEAN : SearchCall(ok)
    \/ \E ok \in BOOLEAN, out \in IdeaOutputs : LlmCall(ok, out)
    \/ \E ok \in BOOLEAN : UpsertCall(ok)
    \/ \E text \in IdeaTexts, present \in BOOLEAN :
          SubmitTasks("tasks", text, <<>>, present)
    \/ \E text \in IdeaTexts, ctx \in {<<>>, <<"ta">>}, present \in BOOLEAN :
          SubmitTasks("tasks_ctx", text, ctx, present)
    \/ \E ok \in BOOLEAN, out \in TaskOutputs(op) : LlmStructuredCall(ok, out)
    \/ \E id \in DocIds : SubmitDelete(id)
    \/ \E ok \in BOOLEAN : DeleteCall(ok)
    \/ SubmitGetAll
    \/ \E ok \in BOOLEAN : ScrollCall(ok)
    \/ SubmitStats
    \/ \E ok \in BOOLEAN : CountCall(ok)
    \/ SubmitHealth
    \/ \E ok \in BOOLEAN : HealthCall(ok)
    \/ Respond
    \/ Overlap

Spec == Init /\ [][Next]_vars

\* The retriever's functions called directly, with every argument theirs
\* to choose.
NextLib ==
    \/ \E text \in IdeaTexts, metadata \in Metadatas :
          SubmitStore(text, metadata, MaxIds)
    \/ \E text \in IdeaTexts, top_k \in TopKs, threshold \in Thresholds :
          SubmitRetrieve(text, top_k, threshold)
    \/ GetEmbeddingService
    \/ GetVectorStore
    \/ \E ok \in BOOLEAN : GetCollections(ok)
    \/ \E ok \in BOOLEAN : CreateCollection(ok)
    \/ Restart
    \/ \E ok \in BOOLEAN : EmbedCall(ok)
    \/ \E ok \in BOOLEAN : SearchCall(ok)
    \/ \E ok \in BOOLEAN : UpsertCall(ok)
    \/ Respond
    \/ Overlap

SpecLib == InitAnyProvider /\ [][NextLib]_vars

\* store_idea and retrieve_similar_ideas_with_scores called as process_idea
\* calls them (the configured top_k and threshold), over a store that may
\* grow past top_k records.
NextRecall ==
    \/ \E text \in IdeaTexts : SubmitStore(text, EmptyDict, MaxRecall)
    \/ \E text \in IdeaTexts : SubmitRetrieve(text, 0, 0)
    \/ GetEmbeddingService
    \/ GetVectorStore
    \/ \E ok \in BOOLEAN : GetCollections(ok)
    \/ \E ok \in BOOLEAN : CreateCollection(ok)
    \/ \E ok \in BOOLEAN : EmbedCall(ok)
    \/ \E ok \in BOOLEAN : SearchCall(ok)
    \/ \E ok \in BOOLEAN : UpsertCall(ok)
    \/ Respond
    \/ Overlap

SpecRecall == InitAnyProvider /\ [][NextRecall]_vars

\* The store's writing methods called in any sequence: add (through
\* store_idea), add_batch and delete.
NextStore ==
    \/ \E text \in IdeaTexts, metadata \in Metadatas :
          SubmitStore(text, metadata, MaxIds)
    \/ \E texts \in BatchTexts, short \in BOOLEAN :
          SubmitAddBatch(texts, short, MaxIds)
    \/ \E id \in DocIds : SubmitDelete(id)
    \/ GetEmbeddingService
    \/ GetVectorStore
    \/ \E ok \in BOOLEAN : GetCollections(ok)
    \/ \E ok \in BOOLEAN : CreateCollection(ok)
    \/ \E ok \in BOOLEAN : EmbedCall(ok)
    \/ \E ok \in BOOLEAN : UpsertCall(ok)
    \/ \E ok \in BOOLEAN : BatchUpsertCall(ok)
    \/ \E ok \in BOOLEAN : DeleteCall(ok)
    \/ Respond
    \/ Overlap

SpecStore == Init /\ [][NextStore]_vars

\* run_llm_with_context called directly, over every prompt, context list
\* and user text.
NextPrompt ==
    \/ \E system_prompt \in SystemPrompts, user_input \in IdeaTexts,
          context \in Contexts :
          SubmitLlmWithContext(system_prompt, user_input, context)
    \/ \E ok \in BOOLEAN, out \in {<<>>, <<"oops">>} :
          LlmWithContextCall(ok, out)
    \/ Respond

SpecPrompt == Init /\ [][NextPrompt]_vars

\* The library's operations over a database found as it is.
SpecAnyDatabase == InitAnyDatabase /\ [][NextLib]_vars

(***************************************************************************)
(* Concurrent requests: the lazily created singletons                      *)
(*                                                                         *)
(* The endpoints are plain `def` functions, which the server runs in a     *)
(* pool of worker threads; each request calls get_embedding_service(),     *)
(* get_vector_store() or both.  Neither getter takes a lock, so a thread   *)
(* may be suspended between any two of the steps below.                    *)
(***************************************************************************)
\* What the threads' steps leave alone.
requestVars == <<pc, op, req, points, nextId, attempts, outer, related,
                 llmOut, svc, http, lastReq, llmCalls, deleted, removed,
                 lastInit, failed, total, calls, added>>

\* A request calls one of the getters' callers, which enters its first
\* getter.
ThreadCall(t, caller) ==
    /\ thr[t].pc = "idle"
    /\ thr[t].calls < MaxCalls
    /\ thr' = [thr EXCEPT ![t] = [pc |-> IF caller \in {"store_idea", "embed_text"}
                                         THEN "service_check"
                                         ELSE "store_check",
                                  caller |-> caller, found |-> FALSE,
                                  got |-> 0, gotService |-> 0,
                                  calls |-> thr[t].calls + 1,
                                  raised |-> FALSE]]
    /\ UNCHANGED <<handle, built, ensured, service, servicesBuilt, voyageKey, selfScore,
                   vsInit, collectionExists, collection>>
    /\ UNCHANGED requestVars

\* get_embedding_service(): `if _service is None`.
ServiceCheck(t) ==
    /\ thr[t].pc = "service_check"
    /\ thr' = [thr EXCEPT ![t].pc = IF service = 0 THEN "service_new"
                                                   ELSE "service_return"]
    /\ UNCHANGED <<handle, built, ensured, service, servicesBuilt, voyageKey, selfScore,
                   vsInit, collectionExists, collection>>
    /\ UNCHANGED requestVars

\* get_embedding_service(): `_service = EmbeddingService()`; the
\* constructor raises EmbeddingError when the API key is empty, and the
\* request ends there.
ServiceNew(t) ==
    /\ thr[t].pc = "service_new"
    /\ IF voyageKey
       THEN /\ servicesBuilt' = servicesBuilt + 1
            /\ service' = servicesBuilt + 1
            /\ thr' = [thr EXCEPT ![t].pc = "service_return"]
       ELSE /\ thr' = [thr EXCEPT ![t].pc = "idle", ![t].raised = TRUE]
            /\ UNCHANGED <<service, servicesBuilt>>
    /\ UNCHANGED <<handle, built, ensured, voyageKey, selfScore, vsInit, collectionExists,
                   collection>>
    /\ UNCHANGED requestVars

\* get_embedding_service(): `return _service`, which reads the global
\* again; get_memory_stats has its store by now, embed_text needs none.
ServiceReturn(t) ==
    /\ thr[t].pc = "service_return"
    /\ thr' = [thr EXCEPT ![t].pc = IF thr[t].caller = "store_idea"
                                    THEN "store_check"
                                    ELSE "idle",
                          ![t].gotService = service]
    /\ UNCHANGED <<handle, built, ensured, service, servicesBuilt, voyageKey, selfScore,
                   vsInit, collectionExists, collection>>
    /\ UNCHANGED requestVars

\* get_vector_store(): `if _vector_store is None`.
StoreCheck(t) ==
    /\ thr[t].pc = "store_check"
    /\ thr' = [thr EXCEPT ![t].pc = IF handle = 0 THEN "store_list"
                                                  ELSE "store_return"]
    /\ UNCHANGED <<handle, built, ensured, service, servicesBuilt, voyageKey, selfScore,
                   vsInit, collectionExists, collection>>
    /\ UNCHANGED requestVars

\* The constructor's _ensure_collection begins: get_collections.
StoreList(t, ok) ==
    /\ thr[t].pc = "store_list"
    /\ ensured' = ensured + 1
    /\ thr' = IF ~ok THEN [thr EXCEPT ![t].pc = "idle", ![t].raised = TRUE]
              ELSE [thr EXCEPT ![t].found = collectionExists,
                               ![t].pc = IF EnsureCollectionCreates(collectionExists)
                                         THEN "store_create"
                                         ELSE "store_assign"]
    /\ UNCHANGED <<handle, built, service, servicesBuilt, voyageKey, selfScore, vsInit,
                   collectionExists, collection>>
    /\ UNCHANGED requestVars

\* _ensure_collection: create_collection, for want of the name in the list
\* this thread read.
StoreCreate(t, ok) ==
    /\ thr[t].pc = "store_create"
    /\ IF CreateCollectionOk(collectionExists, ok)
       THEN /\ collectionExists' = TRUE
            /\ collection' = CreateCollectionParams(EmbeddingDim)
            /\ thr' = [thr EXCEPT ![t].pc = "store_assign"]
       ELSE /\ thr' = [thr EXCEPT ![t].pc = "idle", ![t].raised = TRUE]
            /\ UNCHANGED <<collectionExists, collection>>
    /\ UNCHANGED <<handle, built, ensured, service, servicesBuilt, voyageKey, selfScore,
                   vsInit>>
    /\ UNCHANGED requestVars

\* get_vector_store(): the constructor has returned; `_vector_store = ...`.
StoreAssign(t) ==
    /\ thr[t].pc = "store_assign"
    /\ built' = built + 1
    /\ handle' = built + 1
    /\ vsInit' = TRUE
    /\ thr' = [thr EXCEPT ![t].pc = "store_return"]
    /\ UNCHANGED <<ensured, service, servicesBuilt, voyageKey, selfScore, collectionExists,
                   collection>>
    /\ UNCHANGED requestVars

\* get_vector_store(): `return _vector_store`, which reads the global
\* again; get_memory_stats goes on to the embedding service.
StoreReturn(t) ==
    /\ thr[t].pc = "store_return"
    /\ thr' = [thr EXCEPT ![t].pc = IF thr[t].caller = "get_memory_stats"
                                    THEN "service_check"
                                    ELSE "idle",
                          ![t].got = handle]
    /\ UNCHANGED <<handle, built, ensured, service, servicesBuilt, voyageKey, selfScore,
                   vsInit, collectionExists, collection>>
    /\ UNCHANGED requestVars

NextThreads ==
    \E t \in Threads :
        \/ \E caller \in Callers : ThreadCall(t, caller)
        \/ ServiceCheck(t)
        \/ ServiceNew(t)
        \/ ServiceReturn(t)
        \/ StoreCheck(t)
        \/ \E ok \in BOOLEAN : StoreList(t, ok)
        \/ \E ok \in BOOLEAN : StoreCreate(t, ok)
        \/ StoreAssign(t)
        \/ StoreReturn(t)

SpecThreads == Init /\ [][NextThreads]_vars

(***************************************************************************)
(* Properties                                                              *)
(***************************************************************************)
\* The service function of the request has returned or raised.
Finished == svc.kind # "none"

\* The LLM call of the request returned this text.
LlmReturned == llmOut # <<>>

\* process_idea's store step (embed in document role, upsert) failed.
StoreStepFailed == svc.kind = "raise" /\ svc.at \in {"embed_doc", "upsert"}

\* C1: for every LLM output that is valid JSON and every number n of
\* retrieved ideas, process_idea returns a result whose related_ideas_count
\* is n and whose context_used is true exactly when n > 0 (the store step
\* not having failed).
C1_ValidJsonAnnotated ==
    (op = "idea" /\ Finished /\ LlmReturned /\ ~StoreStepFailed
        /\ JsonLoads(llmOut[1]).ok)
    => /\ svc.kind = "return"
       /\ "related_ideas_count" \in DOMAIN svc.val
       /\ svc.val["related_ideas_count"].t = "int"
       /\ svc.val["related_ideas_count"].v = Len(related)
       /\ "context_used" \in DOMAIN svc.val
       /\ svc.val["context_used"].t = "bool"
       /\ svc.val["context_used"].v = (Len(related) > 0)

\* C2 as stated: whenever the LLM returns text that is not valid JSON,
\* process_idea returns (does not raise) a result with an error key and a
\* raw_output key equal to the LLM text, whatever the store step did.
C2_AlwaysReturnsErrorResult ==
    (op = "idea" /\ Finished /\ LlmReturned /\ ~JsonLoads(llmOut[1]).ok)
    => /\ svc.kind = "return"
       /\ "error" \in DOMAIN svc.val
       /\ "raw_output" \in DOMAIN svc.val
       /\ svc.val["raw_output"].t = "text"
       /\ svc.val["raw_output"].v = llmOut[1]

\* C2 amended: whenever the LLM returns text that is not valid JSON,
\* process_idea either raises because its store step failed (only with
\* store_in_memory true), or returns a result with an error key and a
\* raw_output key equal to the LLM text verbatim.
C2_InvalidJsonErrorResult ==
    (op = "idea" /\ Finished /\ LlmReturned /\ ~JsonLoads(llmOut[1]).ok)
    => IF svc.kind = "raise"
       THEN req.store /\ StoreStepFailed
       ELSE /\ "error" \in DOMAIN svc.val
            /\ "raw_output" \in DOMAIN svc.val
            /\ svc.val["raw_output"].t = "text"
            /\ svc.val["raw_output"].v = llmOut[1]

\* C2's case: a stored idea whose non-empty LLM output did not parse.
C2_Witness ==
    /\ op = "idea" /\ req.store /\ svc.kind = "return"
    /\ LlmReturned /\ Len(llmOut[1]) > 0 /\ ~JsonLoads(llmOut[1]).ok
    /\ Len(related) > 0

\* C3: when process_idea yields an error result, POST /ideas/ delivers that
\* payload, with its error and raw_output keys, as the response body.
C3_ErrorPayloadDelivered ==
    (op = "idea" /\ pc = "idle" /\ svc.kind = "return"
        /\ "error" \in DOMAIN svc.val)
    => /\ http.status = 200
       /\ "error" \in DOMAIN http.body
       /\ "raw_output" \in DOMAIN http.body

\* The steps of POST /ideas/ that call a provider.
ProviderSteps ==
    {"get_store", "embed_query", "search", "llm", "embed_doc", "upsert"}

\* C4: whenever an embedding, vector-store or LLM provider call made while
\* serving POST /ideas/ fails, the endpoint answers 503; it answers 500 only
\* for failures that are not provider failures.
C4_ProviderFailureIs503 ==
    (op = "idea" /\ pc = "idle" /\ svc.kind = "raise")
    => /\ svc.at \in ProviderSteps => http.status = 503
       /\ http.status = 500 => svc.at \notin ProviderSteps

\* The LLM output of the request is a JSON object holding a list under tasks.
HoldsTaskList ==
    /\ LlmReturned
    /\ JsonLoads(llmOut[1]).ok
    /\ JsonLoads(llmOut[1]).val.t = "obj"
    /\ "tasks" \in DOMAIN JsonLoads(llmOut[1]).val.v
    /\ JsonLoads(llmOut[1]).val.v["tasks"].t = "arr"

\* C5: extract_tasks never raises: it returns exactly the list under the
\* tasks key, in order, when the LLM output is a JSON object holding such a
\* list, and the empty list in every other case.
C5_TasksListOrEmpty ==
    (op = "tasks" /\ Finished)
    => /\ svc.kind = "return"
       /\ svc.val.t = "arr"
       /\ IF HoldsTaskList
          THEN svc.val.v = JsonLoads(llmOut[1]).val.v["tasks"].v
          ELSE svc.val.v = <<>>

\* C6: every chat-completion request the structured variant issues for task
\* extraction asks for the JSON response format and uses temperature 0.1.
C6_StructuredAsksJson ==
    lastReq.variant = "structured"
    => /\ lastReq.response_format = "json_object"
       /\ lastReq.temperature = 10

\* C7: when every attempt of the embedding request fails, the embedding
\* call stops after 3 attempts and the caller receives an EmbeddingError.
C7_EmbeddingErrorAfterRetries ==
    (svc.kind = "raise" /\ svc.at \in {"embed_query", "embed_doc"})
    => /\ attempts = 3
       /\ svc.exc = "EmbeddingError"

\* C8: when every attempt of the chat-completion request fails,
\* run_llm_with_context terminates and the caller receives an LLMError.
C8_LlmErrorAfterRetries ==
    (svc.kind = "raise" /\ svc.at = "llm") => svc.exc = "LLMError"

\* C9: delete of an identifier that is not stored returns false and does
\* not raise; it returns true only when a stored record was removed.
C9_DeleteReportsRemoval ==
    (op = "delete" /\ svc.kind = "return")
    => /\ svc.val.t = "bool"
       /\ svc.val.v = removed

\* The identifiers a get_all result lists.
ResultIds(result) == {result[i].id : i \in 1..Len(result)}

\* C10: after delete(id) succeeds on a stored id, every later get_all()
\* omits that id, and every other stored record stays retrievable with its
\* text: a deleted identifier is never in the store again, and get_all
\* (within its limit) lists exactly the records added and not deleted.
C10_DeletedStayGone ==
    /\ deleted \cap DOMAIN points = {}
    /\ (op = "get_all" /\ svc.kind = "return"
           /\ Cardinality(DOMAIN points) <= GetAllLimit)
       => /\ ResultIds(svc.val) \cap deleted = {}
          /\ ResultIds(svc.val) = (1..(nextId - 1)) \ deleted
          /\ \A i \in 1..Len(svc.val) :
                svc.val[i].text = points[svc.val[i].id].vector.text

\* C10's case: a get_all after a delete removed one record and left another.
C10_Witness ==
    /\ op = "get_all" /\ svc.kind = "return"
    /\ deleted # {}
    /\ Len(svc.val) > 0

\* A step of the vector store's constructor: its get_collections call or its
\* create_collection call.
ConstructorStep == pc \in {"store_list", "store_create"} /\ pc' # pc

\* C11: a run of the vector store's constructor invokes create_collection
\* exactly when the configured name is absent from the collections it
\* listed; run against a collection that exists, however often, it goes on
\* without invoking creation, and no step of a constructor taken while the
\* collection exists changes the collection or its records.
C11_CreatesOnlyWhenAbsent ==
    [][/\ (pc = "store_list" /\ pc' # pc)
          => /\ lastInit'.ran
             /\ pc' = "store_create" <=> (lastInit'.listed /\ ~collectionExists)
             /\ lastInit'.listed
                  => /\ lastInit'.found = collectionExists
                     /\ lastInit'.created <=> ~lastInit'.found
             /\ ~lastInit'.listed => ~lastInit'.created
             /\ (lastInit'.listed /\ collectionExists)
                  => (vsInit' /\ pc' = AfterStore(op))
       /\ pc' = "store_create" => (pc \in {"store_list", "store_create"}
                                     /\ lastInit'.created /\ ~lastInit'.found)
       /\ (ConstructorStep /\ collectionExists)
            => /\ collectionExists'
               /\ collection' = collection
               /\ points' = points]_vars

\* The constructor has run again over a collection that holds records.
C11_Witness ==
    /\ lastInit.ran /\ lastInit.listed /\ lastInit.found /\ ~lastInit.created
    /\ vsInit
    /\ DOMAIN points # {}

Descending(results) ==
    \A i \in 1..Len(results) : \A j \in 1..Len(results) :
        i <= j => results[i].score >= results[j].score

\* C12: for every top_k and score_threshold the caller supplies, 0 included,
\* retrieve_similar_ideas_with_scores returns at most top_k results, each
\* with a score at or above the supplied threshold, in descending score
\* order.
C12_SearchHonoursArguments ==
    (op = "retrieve" /\ svc.kind = "return")
    => /\ Len(svc.val) <= req.top_k
       /\ \A i \in 1..Len(svc.val) : svc.val[i].score >= req.score_threshold
       /\ Descending(svc.val)

\* The store methods that raise when their database call fails.
RaisingMethods == {"init", "add", "add_batch", "search", "get_all", "delete"}

\* C13: when its database call fails, count returns 0 and health_check
\* returns a status record, neither raising (so get_memory_stats, the
\* embedding service at hand, returns); the constructor, add, search,
\* get_all and delete each raise VectorStoreError and nothing else.
C13_StoreFailureModes ==
    /\ (Finished /\ op # "health" /\ failed \cap RaisingMethods # {})
         => svc.kind = "raise" /\ svc.exc = "VectorStoreError"
    /\ (op = "stats" /\ "count" \in failed) => total = 0
    /\ (op = "stats" /\ Finished /\ ~("init" \in failed) /\ voyageKey)
         => /\ svc.kind = "return"
            /\ svc.val.total_ideas = total
            /\ ("count" \in failed) => svc.val.total_ideas = 0
            /\ ("health_check" \in failed) <=> svc.val.health.status = "unhealthy"
            /\ ~("health_check" \in failed) <=> svc.val.health.status = "healthy"

\* get_memory_stats over a collection that holds records, when both the
\* count and the health check fail.
C13_Witness ==
    /\ op = "stats" /\ Finished
    /\ failed = {"count", "health_check"}
    /\ DOMAIN points # {}
    /\ svc.kind = "return"

\* C14: GET /health always answers 200; its overall status is degraded
\* exactly when the vector-store sub-check is unhealthy, which is exactly
\* when the store could not be constructed or its health call failed, and
\* ok in every other case.
C14_HealthNeverFails ==
    (op = "health" /\ Finished)
    => /\ svc.kind = "return"
       /\ svc.val.services.qdrant.status = "unhealthy" <=> failed # {}
       /\ svc.val.status = "degraded"
            <=> svc.val.services.qdrant.status = "unhealthy"
       /\ svc.val.status = "ok"
            <=> svc.val.services.qdrant.status # "unhealthy"
       /\ pc = "idle" => (http.status = 200 /\ http.body = svc.val)

\* GET /health answered while the vector store could not be constructed.
C14_Witness ==
    /\ op = "health" /\ pc = "idle"
    /\ failed = {"init"}
    /\ http.status = 200
    /\ http.body.status = "degraded"

\* C15: when the system prompt file is missing, process_idea returns a
\* configuration-error result, does not raise, issues no embedding, search,
\* LLM or upsert call, and leaves the vector store as it was.
C15_MissingPromptTouchesNothing ==
    [][(op' = "idea" /\ ~req'.prompt)
        => /\ svc'.kind = "return"
           /\ "error" \in DOMAIN svc'.val
           /\ svc'.val["error"] = JStr("System configuration error")
           /\ calls' = <<>>
           /\ llmCalls' = 0
           /\ lastReq' = NoRequest
           /\ points' = points
           /\ nextId' = nextId
           /\ collectionExists' = collectionExists]_vars

\* process_idea has returned for want of its prompt file, over a store that
\* holds a record.
C15_Witness ==
    /\ op = "idea" /\ ~req.prompt /\ pc = "idle"
    /\ req.store
    /\ DOMAIN points # {}
    /\ svc.kind = "return"

RECURSIVE Occurrences(_, _)
\* How often a call occurs in a call log.
Occurrences(log, call) ==
    IF log = <<>> THEN 0
    ELSE (IF Head(log) = call THEN 1 ELSE 0) + Occurrences(Tail(log), call)

\* The one record the request wrote holds the raw input text, embedded in
\* the document role.
WroteRawTextOnce ==
    /\ Cardinality(added) = 1
    /\ \A id \in added :
          /\ id \in DOMAIN points
          /\ PayloadText(points[id].payload) = req.text
          /\ points[id].vector = Embedding(req.text, "document")

\* C16 as stated: whenever store_in_memory is true and the LLM call has
\* returned, process_idea has, when it finishes, embedded and upserted the
\* raw input text exactly once, whether or not the LLM output parses.
C16_AlwaysStoresOnce ==
    (op = "idea" /\ req.store /\ LlmReturned /\ Finished)
    => /\ Occurrences(calls, "embed_document") = 1
       /\ Occurrences(calls, "add") = 1
       /\ WroteRawTextOnce

\* C16, amended: whenever store_in_memory is true and the LLM call has
\* returned, process_idea calls embed_document once and, when that
\* returns, add once, whether or not the LLM output parses; it writes
\* exactly one record, holding the raw input text, unless a provider call
\* of the store step fails, and then it raises and writes none.
C16_StoresOnceUnlessStoreFails ==
    (op = "idea" /\ req.store /\ LlmReturned /\ Finished)
    => /\ Occurrences(calls, "embed_document") = 1
       /\ Occurrences(calls, "add") = (IF svc.at = "embed_doc" THEN 0 ELSE 1)
       /\ ~StoreStepFailed => WroteRawTextOnce
       /\ StoreStepFailed => (added = {} /\ svc.kind = "raise")

\* process_idea has stored the raw text after an LLM output that is not
\* JSON.
C16_Witness ==
    /\ op = "idea" /\ req.store /\ LlmReturned /\ Finished
    /\ ~JsonLoads(llmOut[1]).ok
    /\ WroteRawTextOnce
    /\ calls = <<"embed_query", "search", "llm", "embed_document", "add">>

\* C17: every record store_idea has written, whatever metadata its caller
\* passed, is embedded in the document role and carries type = "idea" and
\* the stored_at timestamp in its stored metadata.
C17_StoredIdeasTagged ==
    \A id \in DOMAIN points :
        /\ points[id].vector.role = "document"
        /\ "type" \in DOMAIN points[id].payload
        /\ points[id].payload["type"] = "idea"
        /\ "stored_at" \in DOMAIN points[id].payload
        /\ points[id].payload["stored_at"] = "now"

\* C18: every record in the vector store has a non-empty text field, equal
\* to the text that was submitted, and a vector of the configured
\* dimension.
C18_RecordsHoldSubmittedText ==
    \A id \in DOMAIN points :
        /\ "text" \in DOMAIN points[id].payload
        /\ points[id].payload["text"] # ""
        /\ points[id].payload["text"] = points[id].vector.text
        /\ points[id].vector.dim = EmbeddingDim

\* The records store_idea(text) has written.
StoredAs(text) == {id \in DOMAIN points : points[id].vector.text = text}

\* The stored records the database scores at least as high as id against
\* the query, id apart.
Rivals(q, id) ==
    {j \in (DOMAIN points) \ {id} : Score(points, q, j) >= Score(points, q, id)}

\* The result for this identifier, with a score at or above the configured
\* threshold.
Recalled(results, id) ==
    \E i \in 1..Len(results) :
        results[i].id = id /\ results[i].score >= RagScoreThreshold

\* or above the threshold, and top_k others that score as high fill the
\* result.
CrowdedOut ==
    /\ op = "retrieve" /\ svc.kind = "return"
    /\ req.top_k = 0 /\ req.score_threshold = 0
    /\ selfScore >= RagScoreThreshold
    /\ Len(svc.val) = RagTopK
    /\ \E id \in StoredAs(req.text) : ~Recalled(svc.val, id)

\* Scored below: the record is the only one stored, and the provider's
\* vectors put it below the threshold against the query of the same text.
ScoredBelow ==
    /\ op = "retrieve" /\ svc.kind = "return"
    /\ req.top_k = 0 /\ req.score_threshold = 0
    /\ DOMAIN points = StoredAs(req.text)
    /\ Cardinality(DOMAIN points) = 1
    /\ svc.val = <<>>

\* count (3) of chat-completion requests, however the provider fails; one
\* call of run_llm_structured sends exactly one.
C20_LlmRequestsBounded ==
    /\ op = "idea" => llmCalls <= RetryAttempts
    /\ (op \in {"tasks", "tasks_ctx"} /\ Finished /\ req.prompt) => llmCalls = 1

\* The outbound calls of process_idea, in the order of its code.
IdeaCallOrder == <<"embed_query", "search", "llm", "embed_document", "add">>

IsPrefix(s, t) == Len(s) <= Len(t) /\ s = SubSeq(t, 1, Len(s))

\* C21 as stated: in every run of process_idea the outbound calls come in
\* the order embed (query role), search, LLM, then, only when storing,
\* embed (document role) and upsert, each begun after the one before
\* returned; so the search runs before this request has written, returns
\* what the store then holds, and its result is left as it is by the write.
C21_CallsInOrder ==
    [][op' = "idea"
        => /\ IsPrefix(calls', IdeaCallOrder)
           /\ ~req'.store => Len(calls') <= 3
           /\ pc' = "embed_query" => Len(calls') <= 1
           /\ pc' = "search" => calls' = SubSeq(IdeaCallOrder, 1, 1)
           /\ pc' = "llm" => (Len(calls') \in {2, 3} /\ added' = {})
           /\ pc' = "embed_doc"
                => (Len(calls') \in {3, 4} /\ llmOut' # <<>> /\ added' = {})
           /\ pc' = "upsert" => (Len(calls') = 4 /\ added' = {})
           /\ added' # {} => calls' = IdeaCallOrder
           /\ (pc = "search" /\ pc' = "llm")
                => /\ added = {}
                   /\ related' \in RetrieveSimilarIdeas(points,
                                       Embedding(req.text, "query"), 0, 0)
           /\ (pc = "upsert" /\ pc' # pc) => related' = related]_vars

\* The calls of the vector store's constructor: none when the singleton is
\* there, else get_collections and, for want of the collection,
\* create_collection.
ConstructorCalls ==
    {<<>>, <<"get_collections">>, <<"get_collections", "create_collection">>}

\* A call log without the constructor's calls at its head.
OwnCalls(log) ==
    IF Len(log) >= 2 /\ log[1] = "get_collections"
                     /\ log[2] = "create_collection"
    THEN SubSeq(log, 3, Len(log))
    ELSE IF Len(log) >= 1 /\ log[1] = "get_collections" THEN Tail(log)
    ELSE log

\* The call a step has added to the log.
Called(log, next, call) ==
    Len(next) = Len(log) + 1 /\ next[Len(next)] = call

\* C21, amended: in every run of process_idea the outbound calls come in
\* that order, after the calls of the vector store's constructor when the
\* request is the one that constructs it (get_collections first of all,
\* then create_collection when the listing lacks the collection); so the
\* search runs before this request has written, returns what the store
\* then holds, and its result is left as it is by the write.
C21_CallsInOrderAfterConstructor ==
    [][op' = "idea"
        => /\ \E init \in ConstructorCalls :
                 IsPrefix(calls', init \o IdeaCallOrder)
           /\ Called(calls, calls', "get_collections")
                => (calls = <<>> /\ pc = "store_list")
           /\ Called(calls, calls', "create_collection")
                => (calls = <<"get_collections">> /\ lastInit.created)
           /\ ~req'.store => Len(OwnCalls(calls')) <= 3
           /\ pc' = "embed_query" => Len(OwnCalls(calls')) <= 1
           /\ pc' = "search" => OwnCalls(calls') = SubSeq(IdeaCallOrder, 1, 1)
           /\ pc' = "llm" => (Len(OwnCalls(calls')) \in {2, 3} /\ added' = {})
           /\ pc' = "embed_doc"
                => /\ Len(OwnCalls(calls')) \in {3, 4}
                   /\ llmOut' # <<>> /\ added' = {}
           /\ pc' = "upsert" => (Len(OwnCalls(calls')) = 4 /\ added' = {})
           /\ added' # {} => OwnCalls(calls') = IdeaCallOrder
           /\ (pc = "search" /\ pc' = "llm")
                => /\ added = {}
                   /\ related' \in RetrieveSimilarIdeas(points,
                                       Embedding(req.text, "query"), 0, 0)
           /\ (pc = "upsert" /\ pc' # pc) => related' = related]_vars

\* The first process_idea of a process has listed the collections, found
\* an older record of its text and stored its own beside it, and its
\* search had returned the older one alone.
C21_Witness ==
    /\ op = "idea" /\ Finished
    /\ added # {}
    /\ calls = <<"get_collections">> \o IdeaCallOrder
    /\ Cardinality(StoredAs(req.text)) = 2
    /\ Len(related) = 1

\* C22: under any interleaving of concurrent requests the vector-store
\* client and the embedding service are each constructed at most once per
\* process and every call of a getter returns the same handle, so that
\* collection initialization completes at most once.
C22_SingletonsBuiltOnce ==
    /\ built <= 1
    /\ servicesBuilt <= 1
    /\ \A t \in Threads, u \in Threads :
          /\ (thr[t].got # 0 /\ thr[u].got # 0) => thr[t].got = thr[u].got
          /\ (thr[t].gotService # 0 /\ thr[u].gotService # 0)
               => thr[t].gotService = thr[u].gotService

\* C23: whatever the sequence of add, add_batch and delete, and whatever
\* requests served at the same time write, every add writes its records
\* under identifiers no stored record has (the store grows by as many
\* records as were added, under identifiers never used before), and what
\* is stored under an identifier stays as it is for as long as the
\* identifier is stored.
C23_FreshIdsImmutableRecords ==
    [][/\ \A id \in (DOMAIN points) \cap (DOMAIN points') : points'[id] = points[id]
       /\ ((DOMAIN points') \ (DOMAIN points)) \cap deleted = {}
       /\ ~Overlap => (DOMAIN points') \ (DOMAIN points) = added' \ added
       /\ (added' \ added) \cap (deleted \cup DOMAIN points) = {}
       /\ (pc = "upsert" /\ svc'.kind = "return")
            => Cardinality(DOMAIN points') = Cardinality(DOMAIN points) + 1
       /\ (pc = "batch_upsert" /\ svc'.kind = "return")
            => Cardinality(DOMAIN points')
                 = Cardinality(DOMAIN points) + Len(req.texts)]_vars

\* A record has been added after a delete removed the one stored before it.
C23_Witness ==
    /\ op \in {"store", "add_batch"} /\ Finished
    /\ added # {}
    /\ added \subseteq DOMAIN points
    /\ deleted # {}

\* The lines of the system prompt sent that follow the given prompt and the
\* block's three heading lines.
ListedLines ==
    SubSeq(lastReq.system, Len(req.system) + 4, Len(lastReq.system))

\* The line of the block at which the i-th context text starts.
RECURSIVE StartLine(_, _)
StartLine(context, i) ==
    IF i = 1 THEN 1
    ELSE StartLine(context, i - 1) + Len(Lines(context[i - 1]))

\* run_llm_with_context sent a request whose system prompt starts with the
\* given prompt (all of it when the context is empty) and whose user text
\* is the given one.
SentWithGivenPrompt ==
    /\ lastReq.variant = "base"
    /\ lastReq.user = req.text
    /\ IF req.context = <<>>
       THEN lastReq.system = req.system
       ELSE /\ Len(lastReq.system) >= Len(req.system) + 4
            /\ SubSeq(lastReq.system, 1, Len(req.system)) = req.system
            /\ SubSeq(lastReq.system, Len(req.system) + 1, Len(req.system) + 3)
                  = <<"", "---", "**Relevant Context:**">>

\* C24 (as stated): the system prompt run_llm_with_context passes to the
\* base variant is the given prompt unchanged when the context is empty,
\* and otherwise the prompt followed by one block that lists every context
\* text once, in order, each on its own line with the "- " prefix; the user
\* text is passed unchanged.
C24_EachTextOnOwnLine ==
    (op = "llm_ctx" /\ llmCalls > 0) =>
       /\ SentWithGivenPrompt
       /\ req.context # <<>> =>
             ListedLines = [i \in 1..Len(req.context) |-> "- " \o req.context[i]]

\* C24 (amended): the system prompt run_llm_with_context passes to the base
\* variant is the given prompt unchanged when the context is empty, and
\* otherwise the prompt followed by one block holding every context text
\* once, in order, each starting on a new line with the "- " prefix; a text
\* that contains newlines continues on lines without the prefix, so each
\* text has a line of its own only when no text contains a newline.  The
\* user text is passed unchanged.
C24_TextsPrefixedAndJoined ==
    (op = "llm_ctx" /\ llmCalls > 0) =>
       /\ SentWithGivenPrompt
       /\ req.context # <<>> =>
             /\ Len(ListedLines) = StartLine(req.context, Len(req.context) + 1) - 1
             /\ \A i \in 1..Len(req.context) :
                   /\ ListedLines[StartLine(req.context, i)]
                         = "- " \o Lines(req.context[i])[1]
                   /\ \A k \in 2..Len(Lines(req.context[i])) :
                         ListedLines[StartLine(req.context, i) + k - 1]
                           = Lines(req.context[i])[k]
             /\ (\A i \in 1..Len(req.context) : Len(Lines(req.context[i])) = 1)
                   => ListedLines
                        = [i \in 1..Len(req.context) |-> "- " \o req.context[i]]

C24_Witness ==
    /\ op = "llm_ctx" /\ Finished /\ svc.kind = "return"
    /\ req.context = <<"tc\ntd", "ta">>
    /\ ListedLines = <<"- tc", "td", "- ta">>

\* C25: once the vector store's constructor has returned, the configured
\* collection exists with the configured vector dimension and the cosine
\* distance, whether the constructor created it or found it.
C25_CollectionAsConfigured ==
    vsInit => /\ collectionExists
              /\ collection = VectorParams(EmbeddingDim, "Cosine")

\* A step of a process_idea call, from its entry to the response, or of a
\* request served meanwhile.
IdeaStep == op' = "idea" /\ (pc # "idle" \/ pc' # "idle")

\* C26: every step a process_idea call takes itself leaves the stored
\* records as they were while store_in_memory is false or the LLM call has
\* not yet returned; so a call with store_in_memory false, and a call whose
\* retrieval or LLM step fails, writes no record.
C26_NoWriteBeforeGeneration ==
    [][(IdeaStep /\ ~Overlap /\ (~req'.store \/ llmOut' = <<>>))
        => (points' = points /\ added' = {})]_vars

\* process_idea with store_in_memory true has failed in its LLM step, after
\* retrieving from a store that holds records.
C26_Witness ==
    /\ op = "idea" /\ req.store /\ Finished
    /\ svc.kind = "raise" /\ svc.at = "llm"
    /\ Len(related) > 0
    /\ added = {}

\* C27: whenever the LLM call made for POST /tasks/extract fails, or returns
\* text that is not a JSON object holding a list under tasks, the endpoint
\* answers 200 with count 0 and an empty tasks list (never 503 or 500); and
\* in every 200 response count is the length of tasks.
C27_FailureAnswersEmpty ==
    (op = "tasks" /\ http # NoHttp) =>
       /\ (llmCalls > 0 /\ (~LlmReturned \/ ~HoldsTaskList))
             => http = Http(200, [count |-> JInt(0), tasks |-> JArr(<<>>)])
       /\ http.status = 200
             => /\ http.body["tasks"].t = "arr"
                /\ http.body["count"] = JInt(Len(http.body["tasks"].v))

====
